---- MODULE Spec2Model ----
(***************************************************************************)
(* Ledger of fintrack: the Account aggregate (internal/modules/ledger/     *)
(* domain.go), the use cases of the ledger Service (service.go) and the    *)
(* PostgreSQL repository that loads and saves the whole aggregate.         *)
(*                                                                         *)
(* Spec        : one in-memory Account driven directly through its         *)
(*               mutation methods, with an injected Clock.                 *)
(* SpecService : concurrent use cases of the Service against the           *)
(*               repository and a read-committed store.                    *)
(*                                                                         *)
(* Values.  A time.Time is a natural number, a nil *time.Time is NilTime.  *)
(* A uuid is a positive natural, a nil *uuid.UUID is NilID.  An error is   *)
(* the chain of messages and sentinels that errors.Unwrap walks, outermost *)
(* first; the nil error is the empty chain.                                *)
(***************************************************************************)
EXTENDS Integers, Sequences, FiniteSets, TLC

\* ------------------------------------------------------------------ bounds
MaxTime == 1
MaxTxs == 2
MaxIDs == 3
MaxRequests == 4
MaxCells == 3
MaxTokens == 3

\* ------------------------------------------------------- program constants
maxAccountNameLength == 100
maxTransactionDescriptionLength == 100
maxTransactionObservationLength == 2500

NilTime == -1
NilID == 0

Income == "INCOME"
Expense == "EXPENSE"
Adjustment == "ADJUSTMENT"

ErrAccountArchived == "account is already archived"
ErrAccountNotArchived == "account is not archived"
ErrTransactionNotFound == "transaction not found in this account"
ErrTransactionAlreadyPaid == "transaction is already marked as paid"
ErrTransactionAlreadyUnpaid == "transaction is already marked as unpaid"
ErrPaymentDateInFuture == "payment date cannot be in the future"
ErrAmountCannotBeZero == "transaction amount cannot be zero"
ErrDescriptionRequired == "transaction description is required"
ErrAccountNameRequired == "account name is required"
ErrInconsistentAmountSign == "transaction amount sign is inconsistent with its type"
ErrInvalidTransactionType == "invalid transaction type"

\* ------------------------------------------------------------------ errors
NoError == << >>
Sentinel(e) == << e >>
\* fmt.Errorf("msg: %w", err): the chain keeps err reachable by Unwrap
Wrap(msg, err) == << msg >> \o err
\* err.Error(): the message of each wrapper, a colon, the text of what it wraps
RECURSIVE ErrorText(_)
ErrorText(err) ==
    IF Len(err) = 1 THEN err[1] ELSE err[1] \o ": " \o ErrorText(Tail(err))
\* fmt.Errorf("msg: %v", err): only the text survives, the chain is cut
WrapV(msg, err) == << msg \o ": " \o ErrorText(err) >>
\* errors.Is(err, target)
ErrorsIs(err, target) == \E i \in DOMAIN err : err[i] = target

\* ------------------------------------------------------------ input domains
Procs == {1, 2}
Times == 0..MaxTime
OptTimes == Times \cup {NilTime}
Amounts == {-1, 0, 2}
TxTypes == {Income, Expense, Adjustment}
InputTypes == TxTypes \cup {"TRANSFER"}
\* 2501 spaces
LongBlank ==
    LET B10 == "          "
        B100 == B10 \o B10 \o B10 \o B10 \o B10 \o B10 \o B10 \o B10 \o B10 \o B10
        B500 == B100 \o B100 \o B100 \o B100 \o B100
    IN B500 \o B500 \o B500 \o B500 \o B500 \o " "
BlankStrings == {"", " ", LongBlank}
Descriptions == {"", "rent"}
Observations == {""}
DueDates == {0}
NewBalances == {0, 2}
TxIDs == 1..MaxIDs
UserA == 1
AccountA == 1

\* strings.TrimSpace(s) == ""
TrimSpaceIsEmpty(s) == s \in BlankStrings
\* len(s) and utf8.RuneCountInString(s) agree on the ASCII strings modelled
RuneCountInString(s) == Len(s)

VARIABLES
    acct,       \* the in-memory Account aggregate of Spec
    now,        \* what clock.Now() returns
    nextID,     \* the next value uuid.New() returns
    dbAccounts, \* committed rows of table accounts
    dbTxs,      \* committed rows of table transactions
    procs,      \* the use case each request is running, and where it stands
    saved,      \* per account, the snapshot the last Save started from, and
                \* the transactions added by the Saves that started from it
    reply,      \* what the use case that has just returned gave its caller
    requests,   \* how many use cases have been called
    heap,       \* the time.Time values that *time.Time pointers refer to
    pacct,      \* the Account of SpecAlias, each PaidAt an address in heap
    snap,       \* the slice the last a.Transactions() returned to the caller
    held,       \* the addresses the caller passed to AddTransaction as paidAt
    tokenTable, \* the items of the DynamoDB table of refresh tokens
    tokenProcs, \* the TokenService call each request is running
    issued,     \* the refresh tokens handed to clients so far
    rotations,  \* what each finished RotateRefreshToken returned
    nextToken   \* the next value generateOpaqueToken draws

svcVars == << dbAccounts, dbTxs, procs, saved, reply, requests >>
ptrVars == << heap, pacct, snap, held >>
tokVars == << tokenTable, tokenProcs, issued, rotations, nextToken >>
vars == << acct, now, nextID, dbAccounts, dbTxs, procs, saved, reply, requests,
           heap, pacct, snap, held,
           tokenTable, tokenProcs, issued, rotations, nextToken >>

\* ------------------------------------------------------------------ domain

\* NewAccount: the aggregate right after construction
NewAccountValue(id, userID, name, include) ==
    [ ID |-> id, UserID |-> userID, Name |-> name,
      IncludeInOverallBalance |-> include,
      ArchivedAt |-> NilTime, transactions |-> << >> ]

\* t.After(u)
After(t, u) == t > u

\* findTransaction: index of the first transaction with that ID, 0 if none
RECURSIVE findFrom(_, _, _)
findFrom(txs, txID, i) ==
    IF i > Len(txs) THEN 0
    ELSE IF txs[i].ID = txID THEN i
    ELSE findFrom(txs, txID, i + 1)

findTransaction(a, txID) == findFrom(a.transactions, txID, 1)

\* AddTransaction with the archived check left out
AddTransactionNoArchiveCheck(a, txType, description, observation, amount, categoryID, dueDate, paidAt, clockNow, newID) ==
    IF TrimSpaceIsEmpty(description)
        THEN [ acc |-> a, err |-> Sentinel(ErrDescriptionRequired) ]
    ELSE IF Len(description) > maxTransactionDescriptionLength
        THEN [ acc |-> a, err |-> << "transaction description cannot exceed 100 characters" >> ]
    ELSE IF ~TrimSpaceIsEmpty(observation)
            /\ RuneCountInString(observation) > maxTransactionObservationLength
        THEN [ acc |-> a, err |-> << "transaction observation cannot exceed 2500 characters" >> ]
    ELSE IF amount = 0
        THEN [ acc |-> a, err |-> Sentinel(ErrAmountCannotBeZero) ]
    ELSE IF txType \notin TxTypes
        THEN [ acc |-> a, err |-> Sentinel(ErrInvalidTransactionType) ]
    ELSE IF (txType = Income /\ amount < 0) \/ (txType = Expense /\ amount > 0)
        THEN [ acc |-> a, err |-> Sentinel(ErrInconsistentAmountSign) ]
    ELSE IF paidAt # NilTime /\ After(paidAt, clockNow)
        THEN [ acc |-> a, err |-> Sentinel(ErrPaymentDateInFuture) ]
    ELSE [ acc |-> [ a EXCEPT !.transactions = Append(@,
                        [ ID |-> newID, Type |-> txType, Description |-> description,
                          Observation |-> observation, Amount |-> amount,
                          DueDate |-> dueDate, PaidAt |-> paidAt,
                          CategoryID |-> categoryID ]) ],
           err |-> NoError ]

\* AddTransaction with the sign check applied to Income only
AddTransactionNoExpenseSign(a, txType, description, observation, amount, categoryID, dueDate, paidAt, clockNow, newID) ==
    IF a.ArchivedAt # NilTime
        THEN [ acc |-> a, err |-> Sentinel(ErrAccountArchived) ]
    ELSE IF TrimSpaceIsEmpty(description)
        THEN [ acc |-> a, err |-> Sentinel(ErrDescriptionRequired) ]
    ELSE IF Len(description) > maxTransactionDescriptionLength
        THEN [ acc |-> a, err |-> << "transaction description cannot exceed 100 characters" >> ]
    ELSE IF ~TrimSpaceIsEmpty(observation)
            /\ RuneCountInString(observation) > maxTransactionObservationLength
        THEN [ acc |-> a, err |-> << "transaction observation cannot exceed 2500 characters" >> ]
    ELSE IF amount = 0
        THEN [ acc |-> a, err |-> Sentinel(ErrAmountCannotBeZero) ]
    ELSE IF txType \notin TxTypes
        THEN [ acc |-> a, err |-> Sentinel(ErrInvalidTransactionType) ]
    ELSE IF txType = Income /\ amount < 0
        THEN [ acc |-> a, err |-> Sentinel(ErrInconsistentAmountSign) ]
    ELSE IF paidAt # NilTime /\ After(paidAt, clockNow)
        THEN [ acc |-> a, err |-> Sentinel(ErrPaymentDateInFuture) ]
    ELSE [ acc |-> [ a EXCEPT !.transactions = Append(@,
                        [ ID |-> newID, Type |-> txType, Description |-> description,
                          Observation |-> observation, Amount |-> amount,
                          DueDate |-> dueDate, PaidAt |-> paidAt,
                          CategoryID |-> categoryID ]) ],
           err |-> NoError ]

\* AddTransaction with the type tested before the amount
AddTransactionTypeFirst(a, txType, description, observation, amount, categoryID, dueDate, paidAt, clockNow, newID) ==
    IF a.ArchivedAt # NilTime
        THEN [ acc |-> a, err |-> Sentinel(ErrAccountArchived) ]
    ELSE IF TrimSpaceIsEmpty(description)
        THEN [ acc |-> a, err |-> Sentinel(ErrDescriptionRequired) ]
    ELSE IF Len(description) > maxTransactionDescriptionLength
        THEN [ acc |-> a, err |-> << "transaction description cannot exceed 100 characters" >> ]
    ELSE IF ~TrimSpaceIsEmpty(observation)
            /\ RuneCountInString(observation) > maxTransactionObservationLength
        THEN [ acc |-> a, err |-> << "transaction observation cannot exceed 2500 characters" >> ]
    ELSE IF txType \notin TxTypes
        THEN [ acc |-> a, err |-> Sentinel(ErrInvalidTransactionType) ]
    ELSE IF amount = 0
        THEN [ acc |-> a, err |-> Sentinel(ErrAmountCannotBeZero) ]
    ELSE IF (txType = Income /\ amount < 0) \/ (txType = Expense /\ amount > 0)
        THEN [ acc |-> a, err |-> Sentinel(ErrInconsistentAmountSign) ]
    ELSE IF paidAt # NilTime /\ After(paidAt, clockNow)
        THEN [ acc |-> a, err |-> Sentinel(ErrPaymentDateInFuture) ]
    ELSE [ acc |-> [ a EXCEPT !.transactions = Append(@,
                        [ ID |-> newID, Type |-> txType, Description |-> description,
                          Observation |-> observation, Amount |-> amount,
                          DueDate |-> dueDate, PaidAt |-> paidAt,
                          CategoryID |-> categoryID ]) ],
           err |-> NoError ]

\* AddTransaction that numbers the transaction by its position instead of
\* drawing an identity
AddTransactionPositionID(a, txType, description, observation, amount, categoryID, dueDate, paidAt, clockNow, newID) ==
    IF a.ArchivedAt # NilTime
        THEN [ acc |-> a, err |-> Sentinel(ErrAccountArchived) ]
    ELSE IF TrimSpaceIsEmpty(description)
        THEN [ acc |-> a, err |-> Sentinel(ErrDescriptionRequired) ]
    ELSE IF Len(description) > maxTransactionDescriptionLength
        THEN [ acc |-> a, err |-> << "transaction description cannot exceed 100 characters" >> ]
    ELSE IF ~TrimSpaceIsEmpty(observation)
            /\ RuneCountInString(observation) > maxTransactionObservationLength
        THEN [ acc |-> a, err |-> << "transaction observation cannot exceed 2500 characters" >> ]
    ELSE IF amount = 0
        THEN [ acc |-> a, err |-> Sentinel(ErrAmountCannotBeZero) ]
    ELSE IF txType \notin TxTypes
        THEN [ acc |-> a, err |-> Sentinel(ErrInvalidTransactionType) ]
    ELSE IF (txType = Income /\ amount < 0) \/ (txType = Expense /\ amount > 0)
        THEN [ acc |-> a, err |-> Sentinel(ErrInconsistentAmountSign) ]
    ELSE IF paidAt # NilTime /\ After(paidAt, clockNow)
        THEN [ acc |-> a, err |-> Sentinel(ErrPaymentDateInFuture) ]
    ELSE [ acc |-> [ a EXCEPT !.transactions = Append(@,
                        [ ID |-> Len(a.transactions) + 1, Type |-> txType,
                          Description |-> description,
                          Observation |-> observation, Amount |-> amount,
                          DueDate |-> dueDate, PaidAt |-> paidAt,
                          CategoryID |-> categoryID ]) ],
           err |-> NoError ]

\* Account.AddTransaction.  categoryID is the argument the Service passes
\* (service.go:81) and the repository reads back as tx.CategoryID.
AddTransaction(a, txType, description, observation, amount, categoryID, dueDate, paidAt, clockNow, newID) ==
    IF a.ArchivedAt # NilTime
        THEN [ acc |-> a, err |-> Sentinel(ErrAccountArchived) ]
    ELSE IF TrimSpaceIsEmpty(description)
        THEN [ acc |-> a, err |-> Sentinel(ErrDescriptionRequired) ]
    ELSE IF Len(description) > maxTransactionDescriptionLength
        THEN [ acc |-> a, err |-> << "transaction description cannot exceed 100 characters" >> ]
    ELSE IF ~TrimSpaceIsEmpty(observation)
            /\ RuneCountInString(observation) > maxTransactionObservationLength
        THEN [ acc |-> a, err |-> << "transaction observation cannot exceed 2500 characters" >> ]
    ELSE IF amount = 0
        THEN [ acc |-> a, err |-> Sentinel(ErrAmountCannotBeZero) ]
    ELSE IF txType \notin TxTypes
        THEN [ acc |-> a, err |-> Sentinel(ErrInvalidTransactionType) ]
    ELSE IF (txType = Income /\ amount < 0) \/ (txType = Expense /\ amount > 0)
        THEN [ acc |-> a, err |-> Sentinel(ErrInconsistentAmountSign) ]
    ELSE IF paidAt # NilTime /\ After(paidAt, clockNow)
        THEN [ acc |-> a, err |-> Sentinel(ErrPaymentDateInFuture) ]
    ELSE [ acc |-> [ a EXCEPT !.transactions = Append(@,
                        [ ID |-> newID, Type |-> txType, Description |-> description,
                          Observation |-> observation, Amount |-> amount,
                          DueDate |-> dueDate, PaidAt |-> paidAt,
                          CategoryID |-> categoryID ]) ],
           err |-> NoError ]

\* a removal that drops the last entry whatever the index found
RemoveLast(txs, i) == SubSeq(txs, 1, Len(txs) - 1)

\* append(a.transactions[:i], a.transactions[i+1:]...)
RemoveAt(txs, i) == SubSeq(txs, 1, i - 1) \o SubSeq(txs, i + 1, Len(txs))

\* Account.DeleteTransaction
DeleteTransaction(a, txID) ==
    IF a.ArchivedAt # NilTime
        THEN [ acc |-> a, err |-> Sentinel(ErrAccountArchived) ]
    ELSE LET foundIndex == findFrom(a.transactions, txID, 1) IN
         IF foundIndex = 0
            THEN [ acc |-> a, err |-> Sentinel(ErrTransactionNotFound) ]
         ELSE [ acc |-> [ a EXCEPT !.transactions = RemoveAt(@, foundIndex) ],
                err |-> NoError ]

\* Account.RealBalance: fold over the transactions in order
RECURSIVE realFrom(_, _, _)
realFrom(txs, clockNow, i) ==
    IF i > Len(txs) THEN 0
    ELSE (IF txs[i].PaidAt # NilTime /\ ~After(txs[i].PaidAt, clockNow)
             THEN txs[i].Amount ELSE 0)
         + realFrom(txs, clockNow, i + 1)

\* RealBalance that counts every paid transaction, also one paid after now
RealBalanceNoAfter(a, clockNow) ==
    LET RECURSIVE paidFrom(_)
        paidFrom(i) == IF i > Len(a.transactions) THEN 0
                       ELSE (IF a.transactions[i].PaidAt # NilTime
                                THEN a.transactions[i].Amount ELSE 0)
                            + paidFrom(i + 1)
    IN paidFrom(1)

\* RealBalance that counts the unpaid transactions as well
RealBalanceCountsUnpaid(a, clockNow) ==
    LET RECURSIVE allFrom(_)
        allFrom(i) == IF i > Len(a.transactions) THEN 0
                      ELSE a.transactions[i].Amount + allFrom(i + 1)
    IN allFrom(1)

\* RealBalance that leaves the Adjustment transactions out
RealBalanceSkipsAdjustments(a, clockNow) ==
    LET RECURSIVE plainFrom(_)
        plainFrom(i) ==
            IF i > Len(a.transactions) THEN 0
            ELSE (IF /\ a.transactions[i].PaidAt # NilTime
                     /\ ~After(a.transactions[i].PaidAt, clockNow)
                     /\ a.transactions[i].Type # Adjustment
                     THEN a.transactions[i].Amount ELSE 0)
                 + plainFrom(i + 1)
    IN plainFrom(1)

RealBalance(a, clockNow) == realFrom(a.transactions, clockNow, 1)

\* Account.ProjectedBalance
RECURSIVE projectedFrom(_, _)
projectedFrom(txs, i) ==
    IF i > Len(txs) THEN 0 ELSE txs[i].Amount + projectedFrom(txs, i + 1)

ProjectedBalance(a) == projectedFrom(a.transactions, 1)

\* MarkTransactionAsPaid with the future-date check left out
MarkTransactionAsPaidNoFutureCheck(a, txID, paidAt, clockNow) ==
    IF a.ArchivedAt # NilTime
        THEN [ acc |-> a, err |-> Sentinel(ErrAccountArchived) ]
    ELSE LET target == findTransaction(a, txID) IN
         IF target = 0
            THEN [ acc |-> a, err |-> Sentinel(ErrTransactionNotFound) ]
         ELSE IF a.transactions[target].PaidAt # NilTime
            THEN [ acc |-> a, err |-> Sentinel(ErrTransactionAlreadyPaid) ]
         ELSE [ acc |-> [ a EXCEPT !.transactions[target].PaidAt = paidAt ],
                err |-> NoError ]

\* MarkTransactionAsPaid that looks the transaction up before it tests paidAt
MarkTransactionAsPaidFindFirst(a, txID, paidAt, clockNow) ==
    IF a.ArchivedAt # NilTime
        THEN [ acc |-> a, err |-> Sentinel(ErrAccountArchived) ]
    ELSE LET target == findTransaction(a, txID) IN
         IF target = 0
            THEN [ acc |-> a, err |-> Sentinel(ErrTransactionNotFound) ]
         ELSE IF After(paidAt, clockNow)
            THEN [ acc |-> a, err |-> Sentinel(ErrPaymentDateInFuture) ]
         ELSE IF a.transactions[target].PaidAt # NilTime
            THEN [ acc |-> a, err |-> Sentinel(ErrTransactionAlreadyPaid) ]
         ELSE [ acc |-> [ a EXCEPT !.transactions[target].PaidAt = paidAt ],
                err |-> NoError ]

\* Account.MarkTransactionAsPaid
MarkTransactionAsPaid(a, txID, paidAt, clockNow) ==
    IF a.ArchivedAt # NilTime
        THEN [ acc |-> a, err |-> Sentinel(ErrAccountArchived) ]
    ELSE IF After(paidAt, clockNow)
        THEN [ acc |-> a, err |-> Sentinel(ErrPaymentDateInFuture) ]
    ELSE LET target == findTransaction(a, txID) IN
         IF target = 0
            THEN [ acc |-> a, err |-> Sentinel(ErrTransactionNotFound) ]
         ELSE IF a.transactions[target].PaidAt # NilTime
            THEN [ acc |-> a, err |-> Sentinel(ErrTransactionAlreadyPaid) ]
         ELSE [ acc |-> [ a EXCEPT !.transactions[target].PaidAt = paidAt ],
                err |-> NoError ]

\* MarkTransactionAsUnpaid that clears the PaidAt of every transaction
MarkTransactionAsUnpaidAll(a, txID) ==
    IF a.ArchivedAt # NilTime
        THEN [ acc |-> a, err |-> Sentinel(ErrAccountArchived) ]
    ELSE LET target == findTransaction(a, txID) IN
         IF target = 0
            THEN [ acc |-> a, err |-> Sentinel(ErrTransactionNotFound) ]
         ELSE IF a.transactions[target].PaidAt = NilTime
            THEN [ acc |-> a, err |-> Sentinel(ErrTransactionAlreadyUnpaid) ]
         ELSE [ acc |-> [ a EXCEPT !.transactions =
                            [ i \in DOMAIN @ |-> [ @[i] EXCEPT !.PaidAt = NilTime ] ] ],
                err |-> NoError ]

\* Account.MarkTransactionAsUnpaid
MarkTransactionAsUnpaid(a, txID) ==
    IF a.ArchivedAt # NilTime
        THEN [ acc |-> a, err |-> Sentinel(ErrAccountArchived) ]
    ELSE LET target == findTransaction(a, txID) IN
         IF target = 0
            THEN [ acc |-> a, err |-> Sentinel(ErrTransactionNotFound) ]
         ELSE IF a.transactions[target].PaidAt = NilTime
            THEN [ acc |-> a, err |-> Sentinel(ErrTransactionAlreadyUnpaid) ]
         ELSE [ acc |-> [ a EXCEPT !.transactions[target].PaidAt = NilTime ],
                err |-> NoError ]

\* an Archive that stamps the account again when it is already archived
ArchiveRestamps(a, clockNow) ==
    [ acc |-> [ a EXCEPT !.ArchivedAt = clockNow ],
      err |-> IF a.ArchivedAt # NilTime THEN Sentinel(ErrAccountArchived) ELSE NoError ]

\* Account.Archive
Archive(a, clockNow) ==
    IF a.ArchivedAt # NilTime
        THEN [ acc |-> a, err |-> Sentinel(ErrAccountArchived) ]
    ELSE [ acc |-> [ a EXCEPT !.ArchivedAt = clockNow ], err |-> NoError ]

\* Account.Unarchive
Unarchive(a) ==
    IF a.ArchivedAt = NilTime
        THEN [ acc |-> a, err |-> Sentinel(ErrAccountNotArchived) ]
    ELSE [ acc |-> [ a EXCEPT !.ArchivedAt = NilTime ], err |-> NoError ]

\* ----------------------------------- domain methods the Service calls
\* (service.go:57, 105, 112, 118, 176; their bodies follow the specification)

ErrAccountAlreadyIncluded == "account is already included in overall balance"
ErrAccountAlreadyExcluded == "account is already excluded from overall balance"

\* NewAccount(userID, name, includeInBalance)
NewAccount(userID, name, include, newID) ==
    IF TrimSpaceIsEmpty(name)
        THEN [ acc |-> NewAccountValue(NilID, NilID, "", FALSE),
               err |-> Sentinel(ErrAccountNameRequired) ]
    ELSE IF Len(name) > maxAccountNameLength
        THEN [ acc |-> NewAccountValue(NilID, NilID, "", FALSE),
               err |-> << "account name cannot exceed 100 characters" >> ]
    ELSE [ acc |-> NewAccountValue(newID, userID, name, include), err |-> NoError ]

\* Account.ChangeName
ChangeName(a, newName) ==
    IF TrimSpaceIsEmpty(newName)
        THEN [ acc |-> a, err |-> Sentinel(ErrAccountNameRequired) ]
    ELSE IF Len(newName) > maxAccountNameLength
        THEN [ acc |-> a, err |-> << "account name cannot exceed 100 characters" >> ]
    ELSE [ acc |-> [ a EXCEPT !.Name = newName ], err |-> NoError ]

\* Account.EnableOverallBalance
EnableOverallBalance(a) ==
    IF a.IncludeInOverallBalance
        THEN [ acc |-> a, err |-> Sentinel(ErrAccountAlreadyIncluded) ]
    ELSE [ acc |-> [ a EXCEPT !.IncludeInOverallBalance = TRUE ], err |-> NoError ]

\* Account.DisableOverallBalance
DisableOverallBalance(a) ==
    IF ~a.IncludeInOverallBalance
        THEN [ acc |-> a, err |-> Sentinel(ErrAccountAlreadyExcluded) ]
    ELSE [ acc |-> [ a EXCEPT !.IncludeInOverallBalance = FALSE ], err |-> NoError ]

\* Account.AdjustBalance
AdjustBalance(a, newBalance, clockNow, newID) ==
    IF a.ArchivedAt # NilTime
        THEN [ acc |-> a, err |-> Sentinel(ErrAccountArchived) ]
    ELSE LET delta == newBalance - RealBalance(a, clockNow) IN
         IF delta = 0
            THEN [ acc |-> a, err |-> NoError ]
         ELSE [ acc |-> [ a EXCEPT !.transactions = Append(@,
                            [ ID |-> newID, Type |-> Adjustment,
                              Description |-> "Balance adjustment", Observation |-> "",
                              Amount |-> delta, DueDate |-> clockNow,
                              PaidAt |-> clockNow, CategoryID |-> NilID ]) ],
                err |-> NoError ]

\* -------------------------------------------------------------- repository

ErrAccountNotFound == "account not found in database"

\* SQL NULL
DBNull == NilTime

\* an error of the connection or of the server, as pgx returns it
DBError == << "db error" >>

\* a nil *Account and a nil *accountModel
NoAccount == NewAccountValue(NilID, NilID, "", FALSE)
NoModel ==
    [ ID |-> NilID, UserID |-> NilID, Name |-> "",
      IncludeInOverallBalance |-> FALSE, ArchivedAt |-> NilTime ]

\* toAccountPersistence
toAccountPersistence(a) ==
    [ ID |-> a.ID, UserID |-> a.UserID, Name |-> a.Name,
      IncludeInOverallBalance |-> a.IncludeInOverallBalance,
      ArchivedAt |-> a.ArchivedAt ]

\* toTransactionPersistence
toTransactionPersistence(tx, accountID, userID) ==
    [ ID |-> tx.ID, AccountID |-> accountID, UserID |-> userID,
      CategoryID |-> tx.CategoryID, Type |-> tx.Type,
      Description |-> tx.Description, Observation |-> tx.Observation,
      Amount |-> tx.Amount, DueDate |-> tx.DueDate, PaidAt |-> tx.PaidAt,
      Metadata |-> DBNull ]

\* toTransactionDomain: CategoryID is not copied and stays nil
toTransactionDomain(m) ==
    [ ID |-> m.ID, Type |-> m.Type, Description |-> m.Description,
      Observation |-> m.Observation, Amount |-> m.Amount,
      DueDate |-> m.DueDate, PaidAt |-> m.PaidAt, CategoryID |-> NilID ]

\* toAccountDomain: IncludeInOverallBalance is not copied and stays false
toAccountDomain(m, txsModels) ==
    [ ID |-> m.ID, UserID |-> m.UserID, Name |-> m.Name,
      IncludeInOverallBalance |-> FALSE, ArchivedAt |-> m.ArchivedAt,
      transactions |-> [ i \in DOMAIN txsModels |-> toTransactionDomain(txsModels[i]) ] ]

\* ---- table accounts

\* the row with that id, a row with id NilID when there is none
AccountRow(accs, accountID) ==
    IF \E r \in accs : r.id = accountID
        THEN CHOOSE r \in accs : r.id = accountID
        ELSE [ id |-> NilID, user_id |-> NilID, name |-> "",
               include_in_overall_balance |-> FALSE, archived_at |-> DBNull ]

\* upsertAccount: INSERT ... ON CONFLICT (id) DO UPDATE SET name,
\* include_in_overall_balance, archived_at; user_id is left as stored
upsertAccount(accs, m) ==
    LET old == AccountRow(accs, m.ID) IN
    IF old.id = NilID
        THEN accs \cup { [ id |-> m.ID, user_id |-> m.UserID, name |-> m.Name,
                           include_in_overall_balance |-> m.IncludeInOverallBalance,
                           archived_at |-> m.ArchivedAt ] }
        ELSE (accs \ {old})
             \cup { [ old EXCEPT !.name = m.Name,
                                 !.include_in_overall_balance = m.IncludeInOverallBalance,
                                 !.archived_at = m.ArchivedAt ] }

\* getAccountByID: SELECT ... WHERE id = $1, scanned column by column
getAccountByID(accs, accountID) ==
    LET r == AccountRow(accs, accountID) IN
    IF r.id = NilID
        THEN [ m |-> NoModel, err |-> Sentinel(ErrAccountNotFound) ]
        ELSE [ m |-> [ ID |-> r.id, UserID |-> r.user_id, Name |-> r.name,
                       IncludeInOverallBalance |-> r.include_in_overall_balance,
                       ArchivedAt |-> r.archived_at ],
               err |-> NoError ]

\* ---- table transactions

RowsOf(txs, accountID) == { r \in txs : r.account_id = accountID }

\* the ids deleteTransactionsForAccount would delete nothing of
NoRowIDs(txs, accountID) == {}

\* deleteTransactionsForAccount: the ids of the rows DELETE ... WHERE
\* account_id = $1 removes
deleteTransactionsForAccount(txs, accountID) ==
    { r.id : r \in RowsOf(txs, accountID) }

\* a bulk insert that queues every row but the first
bulkInsertAllButFirst(accountID, userID, transactions) ==
    { LET m == toTransactionPersistence(transactions[i], accountID, userID)
      IN [ id |-> m.ID, account_id |-> m.AccountID, user_id |-> m.UserID,
           category_id |-> m.CategoryID, type |-> m.Type,
           description |-> m.Description, observation |-> m.Observation,
           amount_in_cents |-> m.Amount, due_date |-> m.DueDate,
           paid_at |-> m.PaidAt, metadata |-> m.Metadata ]
      : i \in DOMAIN transactions \ {1} }

\* bulkInsertTransactions: the rows the batch inserts; metadata is not in
\* the column list and takes its default NULL
bulkInsertTransactions(accountID, userID, transactions) ==
    { LET m == toTransactionPersistence(transactions[i], accountID, userID)
      IN [ id |-> m.ID, account_id |-> m.AccountID, user_id |-> m.UserID,
           category_id |-> m.CategoryID, type |-> m.Type,
           description |-> m.Description, observation |-> m.Observation,
           amount_in_cents |-> m.Amount, due_date |-> m.DueDate,
           paid_at |-> m.PaidAt, metadata |-> m.Metadata ]
      : i \in DOMAIN transactions }

\* rows.Scan of getTransactionsByAccountID.  The SELECT lists
\* ..., due_date, metadata, paid_at, ... and Scan takes
\* ..., &m.DueDate, &m.PaidAt, &m.Metadata, ...: column metadata lands in
\* PaidAt and column paid_at in Metadata.
ScanTransactionRow(r) ==
    [ ID |-> r.id, AccountID |-> r.account_id, UserID |-> r.user_id,
      CategoryID |-> r.category_id, Type |-> r.type,
      Description |-> r.description, Observation |-> r.observation,
      Amount |-> r.amount_in_cents, DueDate |-> r.due_date,
      PaidAt |-> r.metadata, Metadata |-> r.paid_at ]

\* every order ORDER BY due_date ASC may return the rows in: ties are in
\* any order
RECURSIVE OrderByDueDate(_)
OrderByDueDate(rows) ==
    IF rows = {} THEN { << >> }
    ELSE LET first == { r \in rows : \A o \in rows : r.due_date <= o.due_date }
         IN UNION { { << r >> \o rest : rest \in OrderByDueDate(rows \ {r}) }
                    : r \in first }

\* getTransactionsByAccountID with ORDER BY due_date DESC
getTransactionsByDueDateDesc(txs, accountID) ==
    LET rows == RowsOf(txs, accountID) IN
    { [ models |-> [ i \in DOMAIN o |-> ScanTransactionRow(o[Len(o) + 1 - i]) ],
        err |-> NoError ]
      : o \in OrderByDueDate(rows) }
    \cup ( IF \E r \in rows : r.paid_at # DBNull
              THEN { [ models |-> << >>,
                       err |-> WrapV("failed to scan transaction row",
                                     << "cannot scan timestamptz into *[]uint8" >>) ] }
              ELSE {} )

\* getTransactionsByAccountID: every result the query may give.  A
\* timestamptz that is not NULL, scanned into the []byte of Metadata, is
\* refused by the driver in binary format and copied as text otherwise.
getTransactionsByAccountID(txs, accountID) ==
    LET rows == RowsOf(txs, accountID) IN
    { [ models |-> [ i \in DOMAIN o |-> ScanTransactionRow(o[i]) ], err |-> NoError ]
      : o \in OrderByDueDate(rows) }
    \cup ( IF \E r \in rows : r.paid_at # DBNull
              THEN { [ models |-> << >>,
                       err |-> WrapV("failed to scan transaction row",
                                     << "cannot scan timestamptz into *[]uint8" >>) ] }
              ELSE {} )

\* PostgresAccountRepository.FindByID from its second query on: accModel is
\* what getAccountByID returned, txOut what getTransactionsByAccountID did
FindByIDResult(accModel, txOut) ==
    IF txOut.err # NoError
        THEN [ account |-> NoAccount,
               err |-> Wrap("failed to find transactions for account", txOut.err) ]
        ELSE [ account |-> toAccountDomain(accModel, txOut.models), err |-> NoError ]

\* a FindByID that formats the error of getAccountByID with %v
FindByIDMissOpaque(err) ==
    [ account |-> NoAccount, err |-> WrapV("failed to find account", err) ]

\* PostgresAccountRepository.FindByID when getAccountByID failed
FindByIDMiss(err) ==
    [ account |-> NoAccount, err |-> Wrap("failed to find account", err) ]

\* --------------------------------------------------------------- HTTP layer

\* customerErrorHandler on an error of the ledger module
customerErrorHandler(err) ==
    IF ErrorsIs(err, ErrAccountNotFound)
        THEN [ status |-> 404, code |-> "RESOURCE_NOT_FOUND", message |-> ErrorText(err) ]
    ELSE IF ErrorsIs(err, ErrAccountArchived)
        THEN [ status |-> 403, code |-> "FORBIDDEN", message |-> ErrorText(err) ]
    ELSE IF \/ ErrorsIs(err, ErrAccountNameRequired)
            \/ ErrorsIs(err, ErrInconsistentAmountSign)
            \/ ErrorsIs(err, ErrAmountCannotBeZero)
        THEN [ status |-> 422, code |-> "BUSINESS_RULE_VIOLATION",
               message |-> ErrorText(err) ]
    ELSE [ status |-> 500, code |-> "INTERNAL_SERVER_ERROR",
           message |-> "An unexpected error occurred" ]

\* ----------------------------------------------------------------- service

\* Service.FindAccountByID with the owner test left out
FindAccountByIDNoOwnerTest(found, userID) ==
    IF found.err # NoError
        THEN [ account |-> NoAccount,
               err |-> Wrap("failed to find account by id", found.err) ]
    ELSE [ account |-> found.account, err |-> NoError ]

\* Service.FindAccountByID, given what accountRepo.FindByID returned
FindAccountByID(found, userID) ==
    IF found.err # NoError
        THEN [ account |-> NoAccount,
               err |-> Wrap("failed to find account by id", found.err) ]
    ELSE IF found.account.UserID # userID
        THEN [ account |-> NoAccount, err |-> Sentinel(ErrAccountNotFound) ]
    ELSE [ account |-> found.account, err |-> NoError ]

\* the goroutines serving requests, and the users sending them
UserB == 2
Users == {UserA, UserB}
CategoryA == 1

\* the parameters of a use case that its later steps still need
NoArgs ==
    [ name |-> "", changeName |-> FALSE, include |-> "nil", txType |-> "",
      description |-> "", amount |-> 0, categoryID |-> NilID,
      dueDate |-> 0, paidAt |-> NilTime, newBalance |-> 0 ]

\* the statements a pgx.Tx has executed and not yet committed
NoTxn == [ locked |-> NilID, accs |-> {}, del |-> {}, ins |-> {} ]

\* what one FindByID can be compared on: the fields of the aggregate it
\* builds from the account row and the transaction rows it read
Observation(m, rows) ==
    [ ID |-> m.ID, UserID |-> m.UserID, Name |-> m.Name, ArchivedAt |-> m.ArchivedAt,
      txs |-> { toTransactionDomain(ScanTransactionRow(r)) : r \in rows } ]

\* a goroutine between two requests
IdleProc ==
    [ pc |-> "done", op |-> "none", userID |-> NilID, accountID |-> NilID,
      args |-> NoArgs, accModel |-> NoModel, cands |-> {}, torn |-> FALSE,
      owner |-> NilID, foreign |-> FALSE, loaded |-> NoAccount, account |-> NoAccount,
      txn |-> NoTxn, fnErr |-> NoError, saveCalled |-> FALSE ]

\* nothing has returned yet
NoReply ==
    [ op |-> "none", foreign |-> FALSE, saveCalled |-> FALSE, torn |-> FALSE,
      err |-> NoError ]

\* no Save has committed yet
NoSave == [ account |-> NoAccount, loaded |-> NoAccount, added |-> {}, ok |-> TRUE ]

MutatingOps ==
    { "AddTransactionToAccount", "UpdateAccount", "ArchiveAccount",
      "UnarchiveAccount", "AdjustAccountBalance" }

\* what each use case returns when FindAccountByID failed
FindFailure(op, err) ==
    CASE op = "AddTransactionToAccount" -> Wrap("failed to find account to add transaction", err)
      [] op = "UpdateAccount" -> Wrap("failed to find account to update", err)
      [] op = "ArchiveAccount" -> Wrap("failed to find account to archive", err)
      [] op = "AdjustAccountBalance" -> Wrap("failed to find account for balance adjustment", err)
      [] OTHER -> err

\* what each use case returns when accountRepo.Save failed
SaveFailure(op, err) ==
    CASE op = "CreateAccount" -> Wrap("failed to save new account", err)
      [] op = "AddTransactionToAccount" -> Wrap("failed to save account after adding transaction", err)
      [] op = "UpdateAccount" -> Wrap("failed to update account", err)
      [] op = "ArchiveAccount" -> Wrap("failed to save archived account state", err)
      [] op = "UnarchiveAccount" -> Wrap("failed to save unarchived account", err)
      [] OTHER -> Wrap("failed to save the adjusted account balance", err)

\* ---- the TokenService call of a request that runs none
\* a refresh token is the hex text of 32 random bytes: a natural here
NoToken == 0
\* the zero tokenItem
NoItem == [ PK |-> << >>, SK |-> << >>, UserID |-> NilID, TokenHash |-> << >>,
            ExpiresAt |-> 0 ]
IdleCall == [ pc |-> "idle", refreshToken |-> NoToken, tokenHash |-> << >>,
              item |-> NoItem, userID |-> NilID ]

\* ------------------------------------------------- Spec: the aggregate alone

Init ==
    /\ acct = NewAccountValue(AccountA, UserA, "Checking", TRUE)
    /\ now = 0
    /\ nextID = 1
    /\ dbAccounts = {}
    /\ dbTxs = {}
    /\ procs = [ p \in Procs |-> IdleProc ]
    /\ saved = [ id \in {AccountA} |-> NoSave ]
    /\ reply = NoReply
    /\ requests = 0
    /\ heap = << >>
    /\ pacct = NewAccountValue(AccountA, UserA, "Checking", TRUE)
    /\ snap = << >>
    /\ held = {}
    /\ tokenTable = {}
    /\ tokenProcs = [ p \in Procs |-> IdleCall ]
    /\ issued = {}
    /\ rotations = {}
    /\ nextToken = 1

\* clock.Now() never decreases
Tick ==
    /\ now < MaxTime
    /\ now' = now + 1
    /\ UNCHANGED << acct, nextID, svcVars, ptrVars, tokVars >>

\* a.AddTransaction(txType, description, observation, amount, dueDate, paidAt, clock)
CallAddTransaction(txType, description, observation, amount, dueDate, paidAt) ==
    LET r == AddTransaction(acct, txType, description, observation, amount,
                            NilID, dueDate, paidAt, now, nextID)
    IN /\ r.err = NoError => (nextID <= MaxIDs /\ Len(acct.transactions) < MaxTxs)
       /\ acct' = r.acc
       /\ nextID' = IF r.err = NoError THEN nextID + 1 ELSE nextID
       /\ UNCHANGED << now, svcVars, ptrVars, tokVars >>

\* a.DeleteTransaction(txID)
CallDeleteTransaction(txID) ==
    LET r == DeleteTransaction(acct, txID)
    IN /\ acct' = r.acc
       /\ UNCHANGED << now, nextID, svcVars, ptrVars, tokVars >>

\* a.MarkTransactionAsPaid(txID, paidAt, clock)
CallMarkTransactionAsPaid(txID, paidAt) ==
    LET r == MarkTransactionAsPaid(acct, txID, paidAt, now)
    IN /\ acct' = r.acc
       /\ UNCHANGED << now, nextID, svcVars, ptrVars, tokVars >>

\* a.MarkTransactionAsUnpaid(txID)
CallMarkTransactionAsUnpaid(txID) ==
    LET r == MarkTransactionAsUnpaid(acct, txID)
    IN /\ acct' = r.acc
       /\ UNCHANGED << now, nextID, svcVars, ptrVars, tokVars >>

DoAddTransaction ==
    \E txType \in InputTypes, description \in Descriptions, observation \in Observations,
       amount \in Amounts, dueDate \in DueDates, paidAt \in OptTimes :
        CallAddTransaction(txType, description, observation, amount, dueDate, paidAt)

DoDeleteTransaction == \E txID \in TxIDs : CallDeleteTransaction(txID)

DoMarkTransactionAsPaid ==
    \E txID \in TxIDs, paidAt \in Times : CallMarkTransactionAsPaid(txID, paidAt)

DoMarkTransactionAsUnpaid == \E txID \in TxIDs : CallMarkTransactionAsUnpaid(txID)

\* a.AdjustBalance(newBalance, clock)
CallAdjustBalance(newBalance) ==
    LET r == AdjustBalance(acct, newBalance, now, nextID)
        fresh == r.err = NoError /\ r.acc # acct
    IN /\ fresh => (nextID <= MaxIDs /\ Len(acct.transactions) < MaxTxs)
       /\ acct' = r.acc
       /\ nextID' = IF fresh THEN nextID + 1 ELSE nextID
       /\ UNCHANGED << now, svcVars, ptrVars, tokVars >>

DoAdjustBalance == \E newBalance \in NewBalances : CallAdjustBalance(newBalance)

\* a.EnableOverallBalance()
DoEnableOverallBalance ==
    /\ LET r == EnableOverallBalance(acct)
       IN /\ acct' = r.acc
    /\ UNCHANGED << now, nextID, svcVars, ptrVars, tokVars >>

\* a.DisableOverallBalance()
DoDisableOverallBalance ==
    /\ LET r == DisableOverallBalance(acct)
       IN /\ acct' = r.acc
    /\ UNCHANGED << now, nextID, svcVars, ptrVars, tokVars >>

\* a.Archive(clock)
DoArchive ==
    /\ LET r == Archive(acct, now)
       IN /\ acct' = r.acc
    /\ UNCHANGED << now, nextID, svcVars, ptrVars, tokVars >>

\* a.Unarchive()
DoUnarchive ==
    /\ LET r == Unarchive(acct)
       IN /\ acct' = r.acc
    /\ UNCHANGED << now, nextID, svcVars, ptrVars, tokVars >>

Next ==
    \/ Tick
    \/ DoAddTransaction
    \/ DoDeleteTransaction
    \/ DoMarkTransactionAsPaid
    \/ DoMarkTransactionAsUnpaid
    \/ DoArchive
    \/ DoUnarchive

Spec == Init /\ [][Next]_vars

\* the aggregate with the methods the Service calls on it as well
NextAccount ==
    \/ Tick
    \/ DoAddTransaction
    \/ DoDeleteTransaction
    \/ DoMarkTransactionAsPaid
    \/ DoMarkTransactionAsUnpaid
    \/ DoArchive
    \/ DoUnarchive
    \/ DoAdjustBalance
    \/ DoEnableOverallBalance
    \/ DoDisableOverallBalance

SpecAccount == Init /\ [][NextAccount]_vars

\* ------------------------------------------- the aggregate with its pointers
\* Transaction.PaidAt is a *time.Time (domain.go:282): in pacct and snap it
\* is an address in heap, NilCell for nil.

NilCell == 0

\* *p for a *time.Time p
Deref(h, p) == IF p = NilCell THEN NilTime ELSE h[p]

\* the transactions as their readers see them: every PaidAt dereferenced
Load(txs, h) == [ i \in DOMAIN txs |-> [ txs[i] EXCEPT !.PaidAt = Deref(h, @) ] ]

\* the account as its methods read it
View(a, h) == [ a EXCEPT !.transactions = Load(@, h) ]

\* a.AddTransaction(..., paidAt, clock) with paidAt the pointer p: the checks
\* read *p, the Transaction stored keeps p itself (domain.go:351-361)
AddTransactionPtr(a, h, txType, description, observation, amount, dueDate, p, clockNow, newID) ==
    LET r == AddTransaction(View(a, h), txType, description, observation, amount,
                            NilID, dueDate, Deref(h, p), clockNow, newID)
    IN IF r.err # NoError THEN [ acc |-> a, err |-> r.err ]
       ELSE [ acc |-> [ a EXCEPT !.transactions = Append(@,
                          [ r.acc.transactions[Len(r.acc.transactions)]
                              EXCEPT !.PaidAt = p ]) ],
              err |-> NoError ]

\* the caller makes a time.Time (when it pays at once), takes its address and
\* calls a.AddTransaction with it; the caller keeps the pointer
PtrAddTransaction ==
    \E amount \in {2}, paidAt \in OptTimes :
       LET p == IF paidAt = NilTime THEN NilCell ELSE Len(heap) + 1
           h == IF paidAt = NilTime THEN heap ELSE Append(heap, paidAt)
           r == AddTransactionPtr(pacct, h, Income, "rent", "", amount, 0, p, now, nextID)
       IN /\ Len(h) <= MaxCells
          /\ r.err = NoError => (nextID <= MaxIDs /\ Len(pacct.transactions) < MaxTxs)
          /\ heap' = h
          /\ held' = IF p = NilCell THEN held ELSE held \cup {p}
          /\ pacct' = r.acc
          /\ nextID' = IF r.err = NoError THEN nextID + 1 ELSE nextID
          /\ UNCHANGED << acct, now, svcVars, tokVars, snap >>

\* a.DeleteTransaction(txID): the entries after the one found move down in
\* the account's own array
PtrDeleteTransaction ==
    \E txID \in TxIDs :
       LET r == DeleteTransaction(pacct, txID)
       IN /\ r.err = NoError
          /\ pacct' = r.acc
          /\ UNCHANGED << acct, now, nextID, svcVars, tokVars, heap, snap, held >>

\* a.MarkTransactionAsPaid(txID, paidAt, clock): paidAt is a parameter passed
\* by value, target.PaidAt = &paidAt points at a time.Time of its own
\* (domain.go:438)
PtrMarkTransactionAsPaid ==
    \E txID \in TxIDs, paidAt \in Times :
       LET r == MarkTransactionAsPaid(View(pacct, heap), txID, paidAt, now)
           target == findTransaction(pacct, txID)
       IN /\ r.err = NoError
          /\ Len(heap) < MaxCells
          /\ heap' = Append(heap, paidAt)
          /\ pacct' = [ pacct EXCEPT !.transactions[target].PaidAt = Len(heap) + 1 ]
          /\ UNCHANGED << acct, now, nextID, svcVars, tokVars, snap, held >>

\* a.MarkTransactionAsUnpaid(txID): target.PaidAt = nil (domain.go:458)
PtrMarkTransactionAsUnpaid ==
    \E txID \in TxIDs :
       LET r == MarkTransactionAsUnpaid(View(pacct, heap), txID)
           target == findTransaction(pacct, txID)
       IN /\ r.err = NoError
          /\ pacct' = [ pacct EXCEPT !.transactions[target].PaidAt = NilCell ]
          /\ UNCHANGED << acct, now, nextID, svcVars, tokVars, heap, snap, held >>

\* a.Transactions(): make and copy give the caller an array of its own whose
\* elements are copies of the Transaction structs, PaidAt pointers included
Transactions(a) == a.transactions

TakeSnapshot ==
    /\ pacct.transactions # << >>
    /\ snap' = Transactions(pacct)
    /\ snap' # snap
    /\ UNCHANGED << acct, now, nextID, svcVars, tokVars, heap, pacct, held >>

\* the caller assigns to an element of the slice it was given: another
\* Amount, a nil PaidAt, or the two elements exchanged
EditSnapshot ==
    /\ \/ \E i \in DOMAIN snap : snap' = [ snap EXCEPT ![i].Amount = 0 - @ ]
       \/ \E i \in DOMAIN snap : snap' = [ snap EXCEPT ![i].PaidAt = NilCell ]
       \/ /\ Len(snap) = 2
          /\ snap' = << snap[2], snap[1] >>
    /\ snap' # snap
    /\ UNCHANGED << acct, now, nextID, svcVars, tokVars, heap, pacct, held >>

\* the caller assigns through the PaidAt of an element of the slice:
\* *txs[i].PaidAt = t
WriteThroughSnapshot ==
    \E i \in DOMAIN snap, t \in Times :
       /\ snap[i].PaidAt # NilCell
       /\ heap[snap[i].PaidAt] # t
       /\ heap' = [ heap EXCEPT ![snap[i].PaidAt] = t ]
       /\ UNCHANGED << acct, now, nextID, svcVars, tokVars, pacct, snap, held >>

\* the caller assigns through a pointer it passed to AddTransaction:
\* *paidAt = t
WriteThroughPaidAt ==
    \E p \in held, t \in Times :
       /\ heap[p] # t
       /\ heap' = [ heap EXCEPT ![p] = t ]
       /\ UNCHANGED << acct, now, nextID, svcVars, tokVars, pacct, snap, held >>

NextAlias ==
    \/ PtrAddTransaction
    \/ PtrDeleteTransaction
    \/ PtrMarkTransactionAsPaid
    \/ PtrMarkTransactionAsUnpaid
    \/ TakeSnapshot
    \/ EditSnapshot
    \/ WriteThroughSnapshot
    \/ WriteThroughPaidAt

SpecAlias == Init /\ [][NextAlias]_vars

\* ------------------------------------- SpecService: use cases over the store

\* the requests are about one account, the first one created, and about an
\* id no account has
MissingID == MaxIDs + 1
AccountIDs == {AccountA, MissingID}
SvcNames == {"", "Checking"}
SvcBalances == {0, 2}

\* params of AddTransactionToAccount: one accepted and unpaid, one accepted
\* and paid, one with a zero amount, one paid after the clock
AddTransactionParams ==
    { [ NoArgs EXCEPT !.txType = Income, !.description = "rent", !.amount = 2,
                      !.categoryID = CategoryA, !.dueDate = 1 ],
      [ NoArgs EXCEPT !.txType = Income, !.description = "rent", !.amount = 2,
                      !.dueDate = 0, !.paidAt = 0 ],
      [ NoArgs EXCEPT !.txType = Income, !.description = "rent", !.amount = 0 ],
      [ NoArgs EXCEPT !.txType = Income, !.description = "rent", !.amount = 2,
                      !.paidAt = MaxTime + 1 ] }

\* params of UpdateAccount: Name and IncludeInOverallBalance are pointers
UpdateAccountParams ==
    { [ NoArgs EXCEPT !.changeName = TRUE, !.name = "Savings" ],
      [ NoArgs EXCEPT !.changeName = TRUE, !.name = "" ],
      [ NoArgs EXCEPT !.include = "true" ],
      [ NoArgs EXCEPT !.include = "false" ] }

\* the use case returns err: the goroutine ends, the caller has the reply
Return(pr, err) ==
    [ proc |-> IdleProc,
      reply |-> [ op |-> pr.op, foreign |-> pr.foreign, saveCalled |-> pr.saveCalled,
                  torn |-> pr.torn, err |-> err ] ]

\* the use case goes on as pr: nothing returns in this step
Continue(pr) == [ proc |-> pr, reply |-> NoReply ]

\* the use case reaches accountRepo.Save(ctx, account)
CallSave(pr, loaded, account) ==
    Continue([ pr EXCEPT !.pc = "begin", !.args = NoArgs, !.accModel = NoModel,
                         !.cands = {}, !.loaded = loaded, !.account = account,
                         !.saveCalled = TRUE ])

\* goroutine p takes the step x
Step(p, x) ==
    /\ procs' = [ procs EXCEPT ![p] = x.proc ]
    /\ reply' = x.reply

\* a use case starts with FindAccountByID, which starts with
\* accountRepo.FindByID, which starts with getAccountByID on the pool
Request(p, op, userID, accountID, args) ==
    /\ procs[p].pc = "done"
    /\ requests < MaxRequests
    /\ requests' = requests + 1
    /\ LET got == getAccountByID(dbAccounts, accountID)
           pr == [ IdleProc EXCEPT !.op = op, !.userID = userID, !.accountID = accountID ]
       IN Step(p,
            IF got.err # NoError
                THEN Return(pr, FindFailure(op,
                                  FindAccountByID(FindByIDMiss(got.err), userID).err))
                ELSE Continue([ pr EXCEPT !.pc = "getTxs", !.args = args,
                                 !.accModel = got.m, !.owner = got.m.UserID,
                                 !.foreign = (got.m.UserID # userID),
                                 !.cands = { Observation(got.m, RowsOf(dbTxs, accountID)) } ]))
    /\ UNCHANGED << acct, now, nextID, dbAccounts, dbTxs, saved, ptrVars, tokVars >>

\* the second query of FindByID, getTransactionsByAccountID on the pool, has
\* given out: what FindAccountByID returns to the use case
Found(p, out) ==
    FindAccountByID(FindByIDResult(procs[p].accModel, out), procs[p].userID)

\* the goroutine once FindByID has its two results; torn records that the
\* pair was the committed state of the aggregate at no time of the call
Seen(p, out) ==
    [ procs[p] EXCEPT !.torn =
        /\ out.err = NoError
        /\ Observation(procs[p].accModel, RowsOf(dbTxs, procs[p].accountID))
              \notin procs[p].cands ]

\* a use case that goes on to Save whatever the domain method answered
ProceedIgnoresDomain(p, pr, f, r, fresh) ==
    IF f.err # NoError
        THEN /\ Step(p, Return(pr, FindFailure(pr.op, f.err)))
             /\ nextID' = nextID
    ELSE /\ fresh => (nextID <= MaxIDs /\ Len(f.account.transactions) < MaxTxs)
         /\ Step(p, CallSave(pr, f.account, r.acc))
         /\ nextID' = IF fresh THEN nextID + 1 ELSE nextID

\* the rest of a use case after FindAccountByID: f is what it returned, r
\* what the domain method answers, fresh whether the method drew a uuid
Proceed(p, pr, f, r, fresh) ==
    IF f.err # NoError
        THEN /\ Step(p, Return(pr, FindFailure(pr.op, f.err)))
             /\ nextID' = nextID
    ELSE IF r.err # NoError
        THEN /\ Step(p, Return(pr, r.err))
             /\ nextID' = nextID
    ELSE /\ fresh => (nextID <= MaxIDs /\ Len(f.account.transactions) < MaxTxs)
         /\ Step(p, CallSave(pr, f.account, r.acc))
         /\ nextID' = IF fresh THEN nextID + 1 ELSE nextID

\* an error of the domain, wrapped as the use case wraps it
Wrapped(msg, r) ==
    [ acc |-> r.acc, err |-> IF r.err = NoError THEN NoError ELSE Wrap(msg, r.err) ]

\* Service.CreateAccount up to its call of Save
CreateAccount(p) ==
    /\ procs[p].pc = "done"
    /\ requests < MaxRequests
    /\ requests' = requests + 1
    /\ \E userID \in {UserA}, name \in SvcNames, include \in BOOLEAN :
        LET r == NewAccount(userID, name, include, nextID)
            pr == [ IdleProc EXCEPT !.op = "CreateAccount", !.userID = userID ]
        IN IF r.err # NoError
              THEN /\ Step(p, Return(pr, Wrap("failed to create new account", r.err)))
                   /\ nextID' = nextID
              ELSE /\ nextID <= MaxIDs
                   /\ nextID = AccountA
                   /\ Step(p, CallSave([ pr EXCEPT !.accountID = r.acc.ID,
                                                   !.owner = userID ],
                                       NoAccount, r.acc))
                   /\ nextID' = nextID + 1
    /\ UNCHANGED << acct, now, dbAccounts, dbTxs, saved, ptrVars, tokVars >>

\* Service.AddTransactionToAccount: its call of FindAccountByID
StartAddTransactionToAccount(p) ==
    \E userID \in Users, accountID \in AccountIDs, params \in AddTransactionParams :
        Request(p, "AddTransactionToAccount", userID, accountID, params)

\* Service.AddTransactionToAccount from the second query of FindByID on
AddTransactionToAccount(p) ==
    /\ procs[p].pc = "getTxs"
    /\ procs[p].op = "AddTransactionToAccount"
    /\ \E out \in getTransactionsByAccountID(dbTxs, procs[p].accountID) :
        LET f == Found(p, out)
            a == procs[p].args
            r == AddTransaction(f.account, a.txType, a.description, "", a.amount,
                                a.categoryID, a.dueDate, a.paidAt, now, nextID)
        IN Proceed(p, Seen(p, out), f, Wrapped("failed to add transaction", r), TRUE)
    /\ UNCHANGED << acct, now, dbAccounts, dbTxs, saved, requests, ptrVars, tokVars >>

\* the domain calls of Service.UpdateAccount with every error of a toggle
\* returned to the caller
UpdateAccountResultStrict(a, args) ==
    LET r1 == IF args.changeName THEN ChangeName(a, args.name)
                                 ELSE [ acc |-> a, err |-> NoError ]
        r2 == CASE args.include = "true" -> EnableOverallBalance(r1.acc)
                [] args.include = "false" -> DisableOverallBalance(r1.acc)
                [] OTHER -> [ acc |-> r1.acc, err |-> NoError ]
    IN IF r1.err # NoError
          THEN Wrapped("failed to update account name", r1)
       ELSE IF args.include = "true" /\ r2.err # NoError
          THEN Wrapped("failed to include account in overall balance", r2)
       ELSE IF args.include = "false" /\ r2.err # NoError
          THEN Wrapped("failed to exclude account from overall balance", r2)
       ELSE [ acc |-> r2.acc, err |-> NoError ]

\* the domain calls of Service.UpdateAccount
UpdateAccountResult(a, args) ==
    LET r1 == IF args.changeName THEN ChangeName(a, args.name)
                                 ELSE [ acc |-> a, err |-> NoError ]
        r2 == CASE args.include = "true" -> EnableOverallBalance(r1.acc)
                [] args.include = "false" -> DisableOverallBalance(r1.acc)
                [] OTHER -> [ acc |-> r1.acc, err |-> NoError ]
    IN IF r1.err # NoError
          THEN Wrapped("failed to update account name", r1)
       ELSE IF args.include = "true" /\ r2.err # NoError
                /\ ~ErrorsIs(r2.err, ErrAccountAlreadyIncluded)
          THEN Wrapped("failed to include account in overall balance", r2)
       ELSE IF args.include = "false" /\ r2.err # NoError
                /\ ~ErrorsIs(r2.err, ErrAccountAlreadyExcluded)
          THEN Wrapped("failed to exclude account from overall balance", r2)
       ELSE [ acc |-> r2.acc, err |-> NoError ]

\* Service.UpdateAccount: its call of FindAccountByID
StartUpdateAccount(p) ==
    \E userID \in Users, accountID \in AccountIDs, params \in UpdateAccountParams :
        Request(p, "UpdateAccount", userID, accountID, params)

\* Service.UpdateAccount from the second query of FindByID on
UpdateAccount(p) ==
    /\ procs[p].pc = "getTxs"
    /\ procs[p].op = "UpdateAccount"
    /\ \E out \in getTransactionsByAccountID(dbTxs, procs[p].accountID) :
        LET f == Found(p, out)
        IN Proceed(p, Seen(p, out), f, UpdateAccountResult(f.account, procs[p].args), FALSE)
    /\ UNCHANGED << acct, now, dbAccounts, dbTxs, saved, requests, ptrVars, tokVars >>

\* Service.ArchiveAccount: its call of FindAccountByID
StartArchiveAccount(p) ==
    \E userID \in Users, accountID \in AccountIDs :
        Request(p, "ArchiveAccount", userID, accountID, NoArgs)

\* Service.ArchiveAccount from the second query of FindByID on
ArchiveAccount(p) ==
    /\ procs[p].pc = "getTxs"
    /\ procs[p].op = "ArchiveAccount"
    /\ \E out \in getTransactionsByAccountID(dbTxs, procs[p].accountID) :
        LET f == Found(p, out)
        IN Proceed(p, Seen(p, out), f,
                   Wrapped("failed to archive account", Archive(f.account, now)), FALSE)
    /\ UNCHANGED << acct, now, dbAccounts, dbTxs, saved, requests, ptrVars, tokVars >>

\* Service.UnarchiveAccount: its call of FindAccountByID
StartUnarchiveAccount(p) ==
    \E userID \in Users, accountID \in AccountIDs :
        Request(p, "UnarchiveAccount", userID, accountID, NoArgs)

\* Service.UnarchiveAccount from the second query of FindByID on
UnarchiveAccount(p) ==
    /\ procs[p].pc = "getTxs"
    /\ procs[p].op = "UnarchiveAccount"
    /\ \E out \in getTransactionsByAccountID(dbTxs, procs[p].accountID) :
        LET f == Found(p, out)
        IN Proceed(p, Seen(p, out), f,
                   Wrapped("failed to unarchive the account", Unarchive(f.account)), FALSE)
    /\ UNCHANGED << acct, now, dbAccounts, dbTxs, saved, requests, ptrVars, tokVars >>

\* Service.AdjustAccountBalance: its call of FindAccountByID
StartAdjustAccountBalance(p) ==
    \E userID \in Users, accountID \in AccountIDs, newBalance \in SvcBalances :
        Request(p, "AdjustAccountBalance", userID, accountID,
                [ NoArgs EXCEPT !.newBalance = newBalance ])

\* Service.AdjustAccountBalance from the second query of FindByID on
AdjustAccountBalance(p) ==
    /\ procs[p].pc = "getTxs"
    /\ procs[p].op = "AdjustAccountBalance"
    /\ \E out \in getTransactionsByAccountID(dbTxs, procs[p].accountID) :
        LET f == Found(p, out)
            r == AdjustBalance(f.account, procs[p].args.newBalance, now, nextID)
        IN Proceed(p, Seen(p, out), f, Wrapped("failed to adjust account balance", r),
                   r.err = NoError /\ r.acc # f.account)
    /\ UNCHANGED << acct, now, dbAccounts, dbTxs, saved, requests, ptrVars, tokVars >>

\* Service.FindAccountByID as a request of its own: its first query
StartFindAccountByID(p) ==
    \E userID \in Users, accountID \in AccountIDs :
        Request(p, "FindAccountByID", userID, accountID, NoArgs)

\* Service.FindAccountByID as a request of its own: its second query
FinishFindAccountByID(p) ==
    /\ procs[p].pc = "getTxs"
    /\ procs[p].op = "FindAccountByID"
    /\ \E out \in getTransactionsByAccountID(dbTxs, procs[p].accountID) :
        LET f == Found(p, out)
        IN Step(p, Return(Seen(p, out), f.err))
    /\ UNCHANGED << acct, now, nextID, dbAccounts, dbTxs, saved, requests, ptrVars, tokVars >>

\* ---- accountRepo.Save: ExecTx and the three statements of its function

\* Save returns err to the use case, which wraps and returns it
SaveReturns(pr, err) ==
    Return(pr, IF err = NoError THEN NoError ELSE SaveFailure(pr.op, err))

\* par.pool.BeginTx
BeginTx(p) ==
    /\ procs[p].pc = "begin"
    /\ \/ Step(p, Continue([ procs[p] EXCEPT !.pc = "upsert" ]))
       \/ Step(p, SaveReturns(procs[p],
                    Wrap("repository: failed to begin transaction", DBError)))
    /\ UNCHANGED << acct, now, nextID, dbAccounts, dbTxs, saved, requests, ptrVars, tokVars >>

\* an upsert step whose failure ends Save at once, the transaction left open
UpsertAccountStepNoRollback(p) ==
    /\ procs[p].pc = "upsert"
    /\ LET id == procs[p].account.ID
           accs == upsertAccount(dbAccounts, toAccountPersistence(procs[p].account))
       IN \/ /\ \A q \in Procs \ {p} : procs[q].txn.locked # id
             /\ Step(p, Continue([ procs[p] EXCEPT !.pc = "delete", !.txn.locked = id,
                                     !.txn.accs = { AccountRow(accs, id) } ]))
          \/ Step(p, SaveReturns(procs[p], WrapV("failed to upsert account", DBError)))
    /\ UNCHANGED << acct, now, nextID, dbAccounts, dbTxs, saved, requests, ptrVars, tokVars >>

\* q.upsertAccount inside the transaction.  INSERT ... ON CONFLICT DO UPDATE
\* locks the row of the account until the transaction ends, and waits while
\* another transaction holds that lock.
UpsertAccountStep(p) ==
    /\ procs[p].pc = "upsert"
    /\ LET id == procs[p].account.ID
           accs == upsertAccount(dbAccounts, toAccountPersistence(procs[p].account))
       IN \/ /\ \A q \in Procs \ {p} : procs[q].txn.locked # id
             /\ Step(p, Continue([ procs[p] EXCEPT !.pc = "delete", !.txn.locked = id,
                                     !.txn.accs = { AccountRow(accs, id) } ]))
          \/ Step(p, Continue([ procs[p] EXCEPT !.pc = "rollback",
                                  !.fnErr = WrapV("failed to upsert account", DBError) ]))
    /\ UNCHANGED << acct, now, nextID, dbAccounts, dbTxs, saved, requests, ptrVars, tokVars >>

\* q.deleteTransactionsForAccount inside the transaction: it deletes the
\* rows committed when the statement runs
DeleteTransactionsStep(p) ==
    /\ procs[p].pc = "delete"
    /\ \/ Step(p, Continue([ procs[p] EXCEPT !.pc = "insert",
               !.txn.del = deleteTransactionsForAccount(dbTxs, procs[p].account.ID) ]))
       \/ Step(p, Continue([ procs[p] EXCEPT !.pc = "rollback",
               !.fnErr = WrapV("failed to delete transactions for account", DBError) ]))
    /\ UNCHANGED << acct, now, nextID, dbAccounts, dbTxs, saved, requests, ptrVars, tokVars >>

\* q.bulkInsertTransactions inside the transaction: nothing is sent for an
\* empty slice; a row whose id is still in the table violates the primary key
BulkInsertStep(p) ==
    /\ procs[p].pc = "insert"
    /\ LET a == procs[p].account
           rows == bulkInsertTransactions(a.ID, a.UserID, a.transactions)
           kept == { r.id : r \in dbTxs } \ procs[p].txn.del
       IN \/ /\ \A r \in rows : r.id \notin kept
             /\ Step(p, Continue([ procs[p] EXCEPT !.pc = "commit", !.txn.ins = rows ]))
          \/ /\ rows # {}
             /\ Step(p, Continue([ procs[p] EXCEPT !.pc = "rollback",
                    !.fnErr = WrapV("failed to bulk insert transactions", DBError) ]))
    /\ UNCHANGED << acct, now, nextID, dbAccounts, dbTxs, saved, requests, ptrVars, tokVars >>

\* the tables once the statements of txn are committed
CommittedAccounts(accs, txn) ==
    { r \in accs : \A w \in txn.accs : w.id # r.id } \cup txn.accs
CommittedTxs(txs, txn) ==
    { r \in txs : r.id \notin txn.del } \cup txn.ins

\* the ids of the transactions a use case added to what it loaded
AddedIDs(pr) ==
    { pr.account.transactions[i].ID : i \in DOMAIN pr.account.transactions }
    \ { pr.loaded.transactions[i].ID : i \in DOMAIN pr.loaded.transactions }

\* the record of the Saves of one account once pr has committed and the use
\* case returned err
Committed(s, pr, err) ==
    IF pr.op = "AddTransactionToAccount" /\ s.loaded = pr.loaded /\ s.added # {}
        THEN [ s EXCEPT !.account = pr.account, !.added = @ \cup AddedIDs(pr),
                        !.ok = @ /\ err = NoError ]
    ELSE IF pr.op = "AddTransactionToAccount"
        THEN [ account |-> pr.account, loaded |-> pr.loaded, added |-> AddedIDs(pr),
               ok |-> err = NoError ]
    ELSE [ NoSave EXCEPT !.account = pr.account ]

\* tx.Commit
CommitTx(p) ==
    /\ procs[p].pc = "commit"
    /\ \/ LET id == procs[p].account.ID
              accs == CommittedAccounts(dbAccounts, procs[p].txn)
              txs == CommittedTxs(dbTxs, procs[p].txn)
              obs == Observation(getAccountByID(accs, id).m, RowsOf(txs, id))
              x == SaveReturns(procs[p], NoError)
          IN /\ dbAccounts' = accs
             /\ dbTxs' = txs
             /\ saved' = [ saved EXCEPT ![id] = Committed(@, procs[p], x.reply.err) ]
             /\ reply' = x.reply
             /\ procs' = [ q \in Procs |->
                    IF q = p THEN x.proc
                    ELSE IF procs[q].pc = "getTxs" /\ procs[q].accountID = id
                        THEN [ procs[q] EXCEPT !.cands = @ \cup {obs} ]
                    ELSE procs[q] ]
       \/ /\ Step(p, SaveReturns(procs[p],
                       Wrap("repository: failed to commit transaction", DBError)))
          /\ UNCHANGED << dbAccounts, dbTxs, saved >>
    /\ UNCHANGED << acct, now, nextID, requests, ptrVars, tokVars >>

\* tx.Rollback with the statements of the transaction made visible
RollbackTxKeepsWrites(p) ==
    /\ procs[p].pc = "rollback"
    /\ Step(p, SaveReturns(procs[p], procs[p].fnErr))
    /\ dbAccounts' = CommittedAccounts(dbAccounts, procs[p].txn)
    /\ dbTxs' = CommittedTxs(dbTxs, procs[p].txn)
    /\ UNCHANGED << acct, now, nextID, saved, requests, ptrVars, tokVars >>

\* tx.Rollback after the function returned an error: the statements of the
\* transaction are dropped whether Rollback itself succeeds or not
RollbackTx(p) ==
    /\ procs[p].pc = "rollback"
    /\ \/ Step(p, SaveReturns(procs[p], procs[p].fnErr))
       \/ Step(p, SaveReturns(procs[p],
                    Wrap("repository: transaction rollback failed: "
                           \o ErrorText(DBError) \o " (original error",
                         procs[p].fnErr)))
    /\ UNCHANGED << acct, now, nextID, dbAccounts, dbTxs, saved, requests, ptrVars, tokVars >>

InitService ==
    /\ acct = NewAccountValue(AccountA, UserA, "Checking", TRUE)
    /\ now = 0
    /\ nextID = 1
    /\ dbAccounts = {}
    /\ dbTxs = {}
    /\ procs = [ p \in Procs |-> IdleProc ]
    /\ saved = [ id \in {AccountA} |-> NoSave ]
    /\ reply = NoReply
    /\ requests = 0
    /\ heap = << >>
    /\ pacct = NewAccountValue(AccountA, UserA, "Checking", TRUE)
    /\ snap = << >>
    /\ held = {}
    /\ tokenTable = {}
    /\ tokenProcs = [ p \in Procs |-> IdleCall ]
    /\ issued = {}
    /\ rotations = {}
    /\ nextToken = 1

NextService ==
    \/ \E p \in Procs : CreateAccount(p)
    \/ \E p \in Procs : StartAddTransactionToAccount(p)
    \/ \E p \in Procs : AddTransactionToAccount(p)
    \/ \E p \in Procs : StartUpdateAccount(p)
    \/ \E p \in Procs : UpdateAccount(p)
    \/ \E p \in Procs : StartArchiveAccount(p)
    \/ \E p \in Procs : ArchiveAccount(p)
    \/ \E p \in Procs : StartUnarchiveAccount(p)
    \/ \E p \in Procs : UnarchiveAccount(p)
    \/ \E p \in Procs : StartAdjustAccountBalance(p)
    \/ \E p \in Procs : AdjustAccountBalance(p)
    \/ \E p \in Procs : StartFindAccountByID(p)
    \/ \E p \in Procs : FinishFindAccountByID(p)
    \/ \E p \in Procs : BeginTx(p)
    \/ \E p \in Procs : UpsertAccountStep(p)
    \/ \E p \in Procs : DeleteTransactionsStep(p)
    \/ \E p \in Procs : BulkInsertStep(p)
    \/ \E p \in Procs : CommitTx(p)
    \/ \E p \in Procs : RollbackTx(p)

SpecService == InitService /\ [][NextService]_vars

\* ------------------------------- SpecToken: refresh tokens and their rotation

\* a token no NewPairForUser ever returned
ForgedToken == MaxTokens + 2
\* refreshTokenTTL, in units of the clock
RefreshTokenTTL == 2
\* hex.EncodeToString(sha256.Sum256([]byte(token))): no two tokens collide
Sha256Hex(token) == << "sha256", token >>
\* the error a failed request to DynamoDB returns
ClientError == Sentinel("operation error DynamoDB")

\* the tokenItem Save builds from a RefreshToken
tokenItem(rt) ==
    [ PK |-> << "USER#", rt.UserID >>, SK |-> << "TOKEN#", rt.TokenHash >>,
      UserID |-> rt.UserID, TokenHash |-> rt.TokenHash,
      ExpiresAt |-> rt.ExpiresAt ]
\* PutItem: the item replaces the one with its primary key, if any
PutItem(table, item) ==
    { i \in table : ~(i.PK = item.PK /\ i.SK = item.SK) } \cup {item}
\* Query on TokenHashIndex with TokenHash = :hash
QueryTokenHash(table, hash) == { i \in table : i.TokenHash = hash }
\* DeleteItem by primary key, with no ConditionExpression: it succeeds
\* whether or not the item is there
DeleteItem(table, pk, sk) == { i \in table : ~(i.PK = pk /\ i.SK = sk) }

\* Service.Login after the password matched: NewPairForUser(user.ID)
Login(p) ==
    /\ tokenProcs[p].pc = "idle"
    /\ tokenProcs' = [tokenProcs EXCEPT ![p] =
                        [IdleCall EXCEPT !.pc = "newpair", !.userID = UserA]]
    /\ UNCHANGED << acct, now, nextID, svcVars, ptrVars, tokenTable, issued,
                    rotations, nextToken >>

\* RotateRefreshToken up to the call of Revoke: the client presents a token
\* it was given, or one it made up
RotateRefreshToken(p) ==
    /\ tokenProcs[p].pc = "idle"
    /\ \E refreshToken \in issued \cup {ForgedToken} :
          tokenProcs' = [tokenProcs EXCEPT ![p] =
                           [IdleCall EXCEPT !.pc = "query",
                                            !.refreshToken = refreshToken,
                                            !.tokenHash = Sha256Hex(refreshToken)]]
    /\ UNCHANGED << acct, now, nextID, svcVars, ptrVars, tokenTable, issued,
                    rotations, nextToken >>

\* Revoke, the Query: on an error RotateRefreshToken returns it wrapped
RevokeQuery(p) ==
    /\ tokenProcs[p].pc = "query"
    /\ \E failed \in BOOLEAN :
          LET Items == QueryTokenHash(tokenTable, tokenProcs[p].tokenHash)
              res == IF failed
                     THEN [ item |-> NoItem,
                            err |-> WrapV("failed to query token by hash", ClientError) ]
                     ELSE IF Items = {}
                     THEN [ item |-> NoItem, err |-> Sentinel("token not found") ]
                     ELSE [ item |-> CHOOSE i \in Items : TRUE, err |-> NoError ]
          IN IF res.err # NoError
             THEN /\ rotations' = rotations \cup
                        { [ refreshToken |-> tokenProcs[p].refreshToken,
                            err |-> WrapV("invalid or expired refresh token", res.err),
                            pair |-> NoToken ] }
                  /\ tokenProcs' = [tokenProcs EXCEPT ![p] = IdleCall]
             ELSE /\ tokenProcs' = [tokenProcs EXCEPT ![p].pc = "delete",
                                                      ![p].item = res.item]
                  /\ UNCHANGED rotations
    /\ UNCHANGED << acct, now, nextID, svcVars, ptrVars, tokenTable, issued,
                    nextToken >>

\* Revoke, the DeleteItem of the item the Query found, and its return
RevokeDeleteItem(p) ==
    /\ tokenProcs[p].pc = "delete"
    /\ \E failed \in BOOLEAN :
          IF failed
          THEN /\ rotations' = rotations \cup
                     { [ refreshToken |-> tokenProcs[p].refreshToken,
                         err |-> WrapV("invalid or expired refresh token",
                                       WrapV("failed to delete token", ClientError)),
                         pair |-> NoToken ] }
               /\ tokenProcs' = [tokenProcs EXCEPT ![p] = IdleCall]
               /\ UNCHANGED tokenTable
          ELSE /\ tokenTable' = DeleteItem(tokenTable, tokenProcs[p].item.PK,
                                           tokenProcs[p].item.SK)
               /\ tokenProcs' = [tokenProcs EXCEPT ![p].pc = "newpair",
                                                   ![p].userID = tokenProcs[p].item.UserID]
               /\ UNCHANGED rotations
    /\ UNCHANGED << acct, now, nextID, svcVars, ptrVars, issued, nextToken >>

\* NewPairForUser: a fresh token, its hash saved, the pair returned
NewPairForUser(p) ==
    /\ tokenProcs[p].pc = "newpair"
    /\ nextToken <= MaxTokens
    /\ \E failed \in BOOLEAN :
          LET refreshToken == nextToken
              rt == [ TokenHash |-> Sha256Hex(refreshToken),
                      UserID |-> tokenProcs[p].userID,
                      ExpiresAt |-> now + RefreshTokenTTL ]
              err == IF failed
                     THEN WrapV("failed to save refresh token",
                                WrapV("failed to save token to dynamodb", ClientError))
                     ELSE NoError
          IN /\ tokenTable' = IF failed THEN tokenTable
                              ELSE PutItem(tokenTable, tokenItem(rt))
             /\ issued' = IF failed THEN issued ELSE issued \cup {refreshToken}
             /\ rotations' =
                   IF tokenProcs[p].refreshToken = NoToken THEN rotations
                   ELSE rotations \cup
                          { [ refreshToken |-> tokenProcs[p].refreshToken,
                              err |-> err,
                              pair |-> IF failed THEN NoToken ELSE refreshToken ] }
    /\ nextToken' = nextToken + 1
    /\ tokenProcs' = [tokenProcs EXCEPT ![p] = IdleCall]
    /\ UNCHANGED << acct, now, nextID, svcVars, ptrVars >>

NextToken ==
    \/ \E p \in Procs : Login(p)
    \/ \E p \in Procs : RotateRefreshToken(p)
    \/ \E p \in Procs : RevokeQuery(p)
    \/ \E p \in Procs : RevokeDeleteItem(p)
    \/ \E p \in Procs : NewPairForUser(p)

SpecToken == Init /\ [][NextToken]_vars

\* ------------------------------------------------------ claims on the domain

TxIndices == DOMAIN acct.transactions

\* the arguments an AddTransaction call may carry
AddArgs ==
    [ txType : InputTypes, description : Descriptions, observation : Observations,
      amount : Amounts, dueDate : DueDates, paidAt : OptTimes ]

\* what a.AddTransaction(x...) returns in the current state
AddResult(x) ==
    AddTransaction(acct, x.txType, x.description, x.observation, x.amount,
                   NilID, x.dueDate, x.paidAt, now, nextID)

Refused(r) == r = [ acc |-> acct, err |-> Sentinel(ErrAccountArchived) ]

\* C1 (archive lock): while ArchivedAt is set, every AddTransaction,
\* DeleteTransaction, MarkTransactionAsPaid and MarkTransactionAsUnpaid call,
\* whatever its arguments, returns ErrAccountArchived and leaves the
\* transaction sequence and ArchivedAt as they were.
C1_ArchiveLock ==
    acct.ArchivedAt # NilTime
    => /\ \A x \in AddArgs : Refused(AddResult(x))
       /\ \A txID \in TxIDs : Refused(DeleteTransaction(acct, txID))
       /\ \A txID \in TxIDs, paidAt \in Times :
             Refused(MarkTransactionAsPaid(acct, txID, paidAt, now))
       /\ \A txID \in TxIDs : Refused(MarkTransactionAsUnpaid(acct, txID))

\* Archive has succeeded on an account that holds a paid and an unpaid
\* transaction, each of which a mutation would otherwise change
C1_Witness ==
    /\ acct.ArchivedAt # NilTime
    /\ \E i \in TxIndices : acct.transactions[i].PaidAt # NilTime
    /\ \E i \in TxIndices : acct.transactions[i].PaidAt = NilTime

\* sum of Amount over the transactions at the positions in S
RECURSIVE SumAmounts(_, _)
SumAmounts(txs, S) ==
    IF S = {} THEN 0
    ELSE LET i == CHOOSE x \in S : TRUE
         IN txs[i].Amount + SumAmounts(txs, S \ {i})

\* C2 (balance derivation): ProjectedBalance() is the sum of Amount over all
\* transactions; RealBalance(clock) is the sum of Amount over exactly the
\* transactions whose PaidAt is set and not after clock.Now(), for every
\* instant the clock may show.
C2_BalanceDerivation ==
    /\ ProjectedBalance(acct) = SumAmounts(acct.transactions, TxIndices)
    /\ \A t \in Times :
          RealBalance(acct, t) =
            SumAmounts(acct.transactions,
                       { i \in TxIndices : /\ acct.transactions[i].PaidAt # NilTime
                                           /\ acct.transactions[i].PaidAt <= t })

\* an unpaid transaction next to one paid later than instant 0: the two
\* balances differ, and the real balance at 0 differs from the one at now
C2_Witness ==
    /\ \E i \in TxIndices : acct.transactions[i].PaidAt = NilTime
    /\ \E i \in TxIndices : acct.transactions[i].PaidAt > 0
    /\ ProjectedBalance(acct) # RealBalance(acct, now)
    /\ RealBalance(acct, 0) # RealBalance(acct, now)

\* C3 (sign invariant): every stored transaction has Amount # 0, an Income
\* has Amount > 0 and an Expense has Amount < 0; an AddTransaction call with
\* amount 0, or with an Income below zero or an Expense above zero, returns
\* an error and appends nothing; an Adjustment is never refused for its sign
\* and is accepted with either sign when the call is otherwise valid.
C3_SignInvariant ==
    /\ \A i \in TxIndices :
          LET tx == acct.transactions[i]
          IN /\ tx.Amount # 0
             /\ tx.Type = Income => tx.Amount > 0
             /\ tx.Type = Expense => tx.Amount < 0
    /\ \A x \in AddArgs :
          LET r == AddResult(x)
          IN /\ ( \/ x.amount = 0
                  \/ x.txType = Income /\ x.amount < 0
                  \/ x.txType = Expense /\ x.amount > 0 )
                => (r.err # NoError /\ r.acc = acct)
             /\ x.txType = Adjustment
                => /\ r.err # Sentinel(ErrInconsistentAmountSign)
                   /\ ( /\ x.amount # 0
                        /\ acct.ArchivedAt = NilTime
                        /\ ~TrimSpaceIsEmpty(x.description)
                        /\ (x.paidAt = NilTime \/ x.paidAt <= now) )
                      => /\ r.err = NoError
                         /\ Len(r.acc.transactions) = Len(acct.transactions) + 1
                         /\ r.acc.transactions[Len(r.acc.transactions)].Amount = x.amount
                         /\ r.acc.transactions[Len(r.acc.transactions)].Type = Adjustment

\* AddTransaction has accepted an Adjustment above zero and one below zero
C3_Witness ==
    /\ \E i \in TxIndices : /\ acct.transactions[i].Type = Adjustment
                             /\ acct.transactions[i].Amount > 0
    /\ \E i \in TxIndices : /\ acct.transactions[i].Type = Adjustment
                             /\ acct.transactions[i].Amount < 0

\* C4 as stated: no PaidAt is after clock.Now(), and AddTransaction with a
\* paidAt after clock.Now() and MarkTransactionAsPaid with a paidAt after
\* clock.Now() both return ErrPaymentDateInFuture and change nothing.
C4_AsStated ==
    /\ \A i \in TxIndices : acct.transactions[i].PaidAt <= now
    /\ \A x \in AddArgs :
          (x.paidAt # NilTime /\ x.paidAt > now)
          => AddResult(x) = [ acc |-> acct, err |-> Sentinel(ErrPaymentDateInFuture) ]
    /\ \A txID \in TxIDs, paidAt \in Times :
          paidAt > now
          => MarkTransactionAsPaid(acct, txID, paidAt, now)
               = [ acc |-> acct, err |-> Sentinel(ErrPaymentDateInFuture) ]

\* C4 (amended): no PaidAt is after clock.Now(); AddTransaction with a
\* paidAt after clock.Now() and MarkTransactionAsPaid with a paidAt after
\* clock.Now() are both refused and change nothing, and the error is
\* ErrPaymentDateInFuture whenever no earlier check fails: the account is
\* not archived and, for AddTransaction, the same call without a paidAt
\* would be accepted.
C4_PaidAtNotInFuture ==
    /\ \A i \in TxIndices : acct.transactions[i].PaidAt <= now
    /\ \A x \in AddArgs :
          (x.paidAt # NilTime /\ x.paidAt > now)
          => LET r == AddResult(x)
             IN /\ r.err # NoError
                /\ r.acc = acct
                /\ AddResult([ x EXCEPT !.paidAt = NilTime ]).err = NoError
                   => r.err = Sentinel(ErrPaymentDateInFuture)
    /\ \A txID \in TxIDs, paidAt \in Times :
          paidAt > now
          => LET r == MarkTransactionAsPaid(acct, txID, paidAt, now)
             IN /\ r.err # NoError
                /\ r.acc = acct
                /\ acct.ArchivedAt = NilTime
                   => r.err = Sentinel(ErrPaymentDateInFuture)

\* an unpaid transaction stands next to one paid at the current instant
\* while the clock can still advance, so that a later paidAt is in the future
C4_Witness ==
    /\ now < MaxTime
    /\ acct.ArchivedAt = NilTime
    /\ \E i \in TxIndices : acct.transactions[i].PaidAt = NilTime
    /\ \E i \in TxIndices : acct.transactions[i].PaidAt = now


\* ------------------------------------------- claims on the service and store

SavePcs == { "begin", "upsert", "delete", "insert", "commit", "rollback" }

\* the transactions of an aggregate without their order
TxSet(a) == { a.transactions[i] : i \in DOMAIN a.transactions }

\* a and b agree on every observable field and on their transactions
SameAggregate(a, b) ==
    /\ a.ID = b.ID
    /\ a.UserID = b.UserID
    /\ a.Name = b.Name
    /\ a.IncludeInOverallBalance = b.IncludeInOverallBalance
    /\ a.ArchivedAt = b.ArchivedAt
    /\ Len(a.transactions) = Len(b.transactions)
    /\ TxSet(a) = TxSet(b)

OrderedByDueDate(a) ==
    \A i, j \in DOMAIN a.transactions :
        i < j => a.transactions[i].DueDate <= a.transactions[j].DueDate

\* C5 as stated: whenever the store holds what the last successful Save of an
\* account wrote, every result FindByID can give for that account is the
\* aggregate that Save was given, field by field and transaction by
\* transaction, with the transactions in order of due date.
C5_RoundTrip ==
    \A id \in DOMAIN saved :
        saved[id].account # NoAccount =>
            LET got == getAccountByID(dbAccounts, id) IN
            /\ got.err = NoError
            /\ \A out \in getTransactionsByAccountID(dbTxs, id) :
                LET b == FindByIDResult(got.m, out) IN
                /\ b.err = NoError
                /\ SameAggregate(b.account, saved[id].account)
                /\ OrderedByDueDate(b.account)

\* a use case p leaves Save in this step
SaveEnds(p) == procs[p].pc \in SavePcs /\ procs'[p].pc = "done"

\* the rows Save(a) is to leave in the store
FullyReplaced(a) ==
    /\ LET row == AccountRow(dbAccounts', a.ID) IN
        /\ row.id = a.ID
        /\ row.name = a.Name
        /\ row.include_in_overall_balance = a.IncludeInOverallBalance
        /\ row.archived_at = a.ArchivedAt
    /\ RowsOf(dbTxs', a.ID) = bulkInsertTransactions(a.ID, a.UserID, a.transactions)

\* C6: the tables change only in the step in which a Save returns nil, and
\* that step leaves the account row and the full replacement of the child
\* rows; a Save that returns an error has changed no row at any of its steps.
C6_SaveAtomic ==
    [][ /\ (dbAccounts' # dbAccounts \/ dbTxs' # dbTxs) =>
              \E p \in Procs : SaveEnds(p) /\ reply'.err = NoError
        /\ \A p \in Procs :
              SaveEnds(p) =>
                  IF reply'.err = NoError
                      THEN FullyReplaced(procs[p].account)
                      ELSE dbAccounts' = dbAccounts /\ dbTxs' = dbTxs ]_vars

\* C6 happens: a Save of an existing account has just failed in the bulk
\* insert, after its upsert and its delete were executed
C6_Witness ==
    /\ reply.saveCalled
    /\ ErrorsIs(reply.err, WrapV("failed to bulk insert transactions", DBError)[1])
    /\ dbAccounts # {}

\* C7 as stated: the account fields and the transactions one FindByID call
\* returns were the committed state of the aggregate at some time of the call.
C7_NoTornRead ==
    /\ ~reply.torn
    /\ \A p \in Procs : ~procs[p].torn

\* C8: once two AddTransactionToAccount calls that loaded the same snapshot
\* have both saved, exactly one of the two transactions they added is in the
\* store, and both calls returned nil.
C8_LostUpdate ==
    \A id \in DOMAIN saved :
        Cardinality(saved[id].added) >= 2 =>
            /\ saved[id].ok
            /\ Cardinality(saved[id].added
                           \cap { r.id : r \in RowsOf(dbTxs, id) }) = 1

\* C8 happens: two adds from one snapshot have both committed
C8_Witness ==
    \E id \in DOMAIN saved : Cardinality(saved[id].added) = 2

\* what the HTTP client gets from FindAccountByID for an id no account has
MissingResponse ==
    customerErrorHandler(
        FindAccountByID(FindByIDMiss(getAccountByID({}, MissingID).err), UserB).err)

\* C9 as stated: FindAccountByID for an account of another user answers what
\* it answers for an id that does not exist.
C9_Indistinguishable ==
    (reply.op = "FindAccountByID" /\ reply.foreign) =>
        /\ ErrorsIs(reply.err, ErrAccountNotFound)
        /\ customerErrorHandler(reply.err) = MissingResponse

\* C10: a mutating use case called by a user who does not own the stored
\* account ends right after FindAccountByID with an error, without calling
\* Save and without changing a row.
C10_ScopedByOwner ==
    [][ \A p \in Procs :
          ( /\ procs[p].op \in MutatingOps
            /\ procs[p].foreign
            /\ procs'[p].pc # procs[p].pc ) =>
              /\ procs'[p].pc = "done"
              /\ reply'.op = procs[p].op
              /\ reply'.err # NoError
              /\ ~reply'.saveCalled
              /\ dbAccounts' = dbAccounts
              /\ dbTxs' = dbTxs ]_vars

\* C10 happens: a mutating use case of a user who does not own the stored
\* account has just returned
C10_Witness ==
    /\ reply.op \in MutatingOps
    /\ reply.foreign
    /\ dbAccounts # {}

\* --------------------------------- claims on the aggregate, second series

\* the settled balance of a at instant t, summed position by position
Settled(a, t) ==
    SumAmounts(a.transactions,
               { i \in DOMAIN a.transactions : /\ a.transactions[i].PaidAt # NilTime
                                              /\ a.transactions[i].PaidAt <= t })

\* the balances a caller may ask AdjustBalance for
AdjustTargets == -2..4

\* C11: AdjustBalance(newBalance, clock) on a non-archived account whose
\* settled balance differs from newBalance appends exactly one transaction,
\* of type Adjustment, with Amount = newBalance - settled balance before the
\* call and PaidAt = clock.Now(), and the settled balance afterwards is
\* newBalance; on an archived account it fails and adds nothing.
C11_AdjustBalance ==
    \A nb \in AdjustTargets :
        LET r == AdjustBalance(acct, nb, now, nextID)
            n == Len(acct.transactions)
        IN /\ acct.ArchivedAt # NilTime
              => (r.err = Sentinel(ErrAccountArchived) /\ r.acc = acct)
           /\ (acct.ArchivedAt = NilTime /\ Settled(acct, now) # nb)
              => /\ r.err = NoError
                 /\ Len(r.acc.transactions) = n + 1
                 /\ SubSeq(r.acc.transactions, 1, n) = acct.transactions
                 /\ r.acc.transactions[n + 1].Type = Adjustment
                 /\ r.acc.transactions[n + 1].Amount = nb - Settled(acct, now)
                 /\ r.acc.transactions[n + 1].PaidAt = now
                 /\ Settled(r.acc, now) = nb
                 /\ RealBalance(r.acc, now) = nb
                 /\ [ r.acc EXCEPT !.transactions = acct.transactions ] = acct

\* AdjustBalance has appended an Adjustment to an account that held an unpaid
\* transaction, so that its settled and its projected balance differ
C11_Witness ==
    \E i, j \in TxIndices :
        /\ j < i
        /\ acct.transactions[i].Type = Adjustment
        /\ acct.transactions[i].Description = "Balance adjustment"
        /\ acct.transactions[j].PaidAt = NilTime

\* the UpdateAccount params that ask for the flag the account has, with and
\* without a new name
SameFlagParams ==
    { [ NoArgs EXCEPT !.include = IF acct.IncludeInOverallBalance THEN "true" ELSE "false",
                      !.changeName = c, !.name = IF c THEN "Savings" ELSE "" ]
      : c \in BOOLEAN }

Others(txID) == LET Keep(t) == t.ID # txID IN SelectSeq(acct.transactions, Keep)

\* C13: on a non-archived account DeleteTransaction(txID) removes exactly one
\* entry or fails: when a transaction has that ID the count drops by one, no
\* entry with that ID is left and the others are unchanged and in the same
\* order; when none has it the call returns ErrTransactionNotFound and the
\* account is as it was.
C13_DeleteExactlyOne ==
    acct.ArchivedAt = NilTime
    => \A txID \in TxIDs \cup {MaxIDs + 1} :
          LET r == DeleteTransaction(acct, txID)
          IN IF \E i \in TxIndices : acct.transactions[i].ID = txID
                THEN /\ r.err = NoError
                     /\ Len(r.acc.transactions) = Len(acct.transactions) - 1
                     /\ r.acc.transactions = Others(txID)
                     /\ \A j \in DOMAIN r.acc.transactions :
                           r.acc.transactions[j].ID # txID
                     /\ [ r.acc EXCEPT !.transactions = acct.transactions ] = acct
                ELSE r = [ acc |-> acct, err |-> Sentinel(ErrTransactionNotFound) ]

\* the first of three transactions was deleted while the second was held:
\* the account holds the second and the third, in that order
C13_Witness ==
    /\ acct.ArchivedAt = NilTime
    /\ Len(acct.transactions) = 2
    /\ acct.transactions[1].ID = 2
    /\ acct.transactions[2].ID = 3

\* the four mutations are accepted on account a: none is refused for the
\* archive, a valid AddTransaction and a DeleteTransaction of a held
\* transaction succeed, and so do MarkTransactionAsPaid on an unpaid and
\* MarkTransactionAsUnpaid on a paid transaction
Accepted(a) ==
    /\ \A x \in AddArgs :
          AddTransaction(a, x.txType, x.description, x.observation, x.amount,
                         NilID, x.dueDate, x.paidAt, now, nextID).err
             # Sentinel(ErrAccountArchived)
    /\ LET r == AddTransaction(a, Income, "rent", "", 2, NilID, 0, NilTime, now, nextID)
       IN r.err = NoError /\ Len(r.acc.transactions) = Len(a.transactions) + 1
    /\ \A txID \in TxIDs :
          /\ DeleteTransaction(a, txID).err # Sentinel(ErrAccountArchived)
          /\ MarkTransactionAsPaid(a, txID, now, now).err # Sentinel(ErrAccountArchived)
          /\ MarkTransactionAsUnpaid(a, txID).err # Sentinel(ErrAccountArchived)
    /\ \A i \in DOMAIN a.transactions :
          LET t == a.transactions[i]
          IN /\ DeleteTransaction(a, t.ID).err = NoError
             /\ t.PaidAt = NilTime
                => MarkTransactionAsPaid(a, t.ID, now, now).err = NoError
             /\ t.PaidAt # NilTime
                => MarkTransactionAsUnpaid(a, t.ID).err = NoError

\* C14 (archive lifecycle): Archive on a non-archived account sets ArchivedAt
\* to clock.Now(); on an archived account it returns ErrAccountArchived and
\* keeps the stamp; Unarchive on an archived account clears ArchivedAt, after
\* which the four mutations are accepted again; Unarchive on a non-archived
\* account returns ErrAccountNotArchived; neither changes the transactions
\* (nor any other field).
C14_ArchiveLifecycle ==
    /\ acct.ArchivedAt = NilTime
       => /\ Archive(acct, now)
               = [ acc |-> [ acct EXCEPT !.ArchivedAt = now ], err |-> NoError ]
          /\ Archive(acct, now).acc.ArchivedAt # NilTime
          /\ Unarchive(acct)
               = [ acc |-> acct, err |-> Sentinel(ErrAccountNotArchived) ]
    /\ acct.ArchivedAt # NilTime
       => /\ Archive(acct, now)
               = [ acc |-> acct, err |-> Sentinel(ErrAccountArchived) ]
          /\ Unarchive(acct)
               = [ acc |-> [ acct EXCEPT !.ArchivedAt = NilTime ], err |-> NoError ]
          /\ Accepted(Unarchive(acct).acc)

\* the account was archived at an earlier time than now and holds a paid and
\* an unpaid transaction: a second Archive would stamp a different time, and
\* Unarchive has mutations of both kinds to accept again
C14_Witness ==
    /\ acct.ArchivedAt # NilTime
    /\ acct.ArchivedAt < now
    /\ Len(acct.transactions) = 2
    /\ acct.transactions[1].PaidAt # NilTime
    /\ acct.transactions[2].PaidAt = NilTime

\* what the account answers in a state: its transactions and both balances
Answers(a, h, t) ==
    << Load(a.transactions, h), RealBalance(View(a, h), t),
       ProjectedBalance(View(a, h)) >>

\* C15 (no aliasing): whatever the caller does to the slice Transactions()
\* returned, to the values reachable from it or to the paidAt it passed to
\* AddTransaction, the account's transactions, RealBalance and
\* ProjectedBalance are as before; and a mutation of the account leaves the
\* slice returned earlier as the caller last saw it.
C15_NoAliasing ==
    [][ /\ (EditSnapshot \/ WriteThroughSnapshot \/ WriteThroughPaidAt)
           => Answers(pacct', heap', now') = Answers(pacct, heap, now)
        /\ (\/ PtrAddTransaction \/ PtrDeleteTransaction
            \/ PtrMarkTransactionAsPaid \/ PtrMarkTransactionAsUnpaid)
           => Load(snap', heap') = Load(snap, heap) ]_vars

\* the half of C15 that the code keeps: the caller's assignments to the
\* elements of the slice, and the account's later mutations, stay on their
\* own side
C15_SliceCopied ==
    [][ /\ EditSnapshot => Answers(pacct', heap', now') = Answers(pacct, heap, now)
        /\ (\/ PtrAddTransaction \/ PtrDeleteTransaction
            \/ PtrMarkTransactionAsPaid \/ PtrMarkTransactionAsUnpaid)
           => Load(snap', heap') = Load(snap, heap) ]_vars

\* the ids of the transactions account.Transactions() returns
MemoryIDs(a) == { a.transactions[i].ID : i \in DOMAIN a.transactions }

\* C16: from the step in which a Save returns nil until the next write, the
\* ids of the persisted transaction rows of the account are the ids of the
\* transactions of the aggregate that Save was given, no more and no fewer,
\* an aggregate without transactions included.
C16_ChildrenMirror ==
    \A id \in DOMAIN saved :
        saved[id].account # NoAccount
        => /\ { r.id : r \in RowsOf(dbTxs, id) } = MemoryIDs(saved[id].account)
           /\ Cardinality(RowsOf(dbTxs, id)) = Len(saved[id].account.transactions)

\* a Save of an aggregate without transactions has deleted the row an
\* earlier Save wrote and is about to commit
C16_Witness ==
    \E p \in Procs :
        /\ procs[p].pc = "commit"
        /\ procs[p].account.transactions = << >>
        /\ procs[p].txn.del # {}
        /\ RowsOf(dbTxs, procs[p].account.ID) # {}

\* the use cases built on FindAccountByID, itself included
FindOps == { "AddTransactionToAccount", "UpdateAccount", "ArchiveAccount",
             "UnarchiveAccount", "AdjustAccountBalance", "FindAccountByID" }

\* the ids of the request no account row answers
Unknown == { id \in AccountIDs : AccountRow(dbAccounts, id).id = NilID }

\* C17: FindByID for an id without an account row returns ErrAccountNotFound
\* and no account, and errors.Is still finds the sentinel in what the
\* repository, Service.FindAccountByID and each use case make of it: a use
\* case goes past its first query only for an id that has a row, and the
\* use case that returns at that query returns an error that is
\* ErrAccountNotFound.
C17_NotFoundIdentity ==
    [][ /\ \A id \in Unknown :
              LET got == getAccountByID(dbAccounts, id)
              IN /\ got.err = Sentinel(ErrAccountNotFound)
                 /\ FindByIDMiss(got.err).account = NoAccount
                 /\ ErrorsIs(FindByIDMiss(got.err).err, ErrAccountNotFound)
        /\ \A p \in Procs :
              (requests' # requests /\ procs'[p].pc = "getTxs" /\ procs[p].pc = "done")
              => procs'[p].accountID \notin Unknown
        /\ (requests' # requests /\ reply'.op \in FindOps)
           => /\ Unknown # {}
              /\ ErrorsIs(reply'.err, ErrAccountNotFound)
              /\ ~reply'.saveCalled ]_vars

\* AdjustAccountBalance has just answered for an id no account has, while
\* another account exists: the sentinel is under three layers of wrapping
C17_Witness ==
    /\ reply.op = "AdjustAccountBalance"
    /\ ~reply.foreign
    /\ dbAccounts # {}
    /\ Len(reply.err) = 4
    /\ reply.err[1] = "failed to find account for balance adjustment"
    /\ reply.err[4] = ErrAccountNotFound

\* the domain method of the use case pr, called on account a, returns an
\* error that is not one of the two sentinels UpdateAccount tolerates
DomainError(pr, a) ==
    LET x == pr.args IN
    CASE pr.op = "AddTransactionToAccount" ->
            AddTransaction(a, x.txType, x.description, "", x.amount, x.categoryID,
                           x.dueDate, x.paidAt, now, nextID).err # NoError
      [] pr.op = "UpdateAccount" ->
            LET r1 == IF x.changeName THEN ChangeName(a, x.name)
                                      ELSE [ acc |-> a, err |-> NoError ]
            IN \/ r1.err # NoError
               \/ /\ x.include = "true"
                  /\ EnableOverallBalance(r1.acc).err
                        \notin { NoError, Sentinel(ErrAccountAlreadyIncluded) }
               \/ /\ x.include = "false"
                  /\ DisableOverallBalance(r1.acc).err
                        \notin { NoError, Sentinel(ErrAccountAlreadyExcluded) }
      [] pr.op = "ArchiveAccount" -> Archive(a, now).err # NoError
      [] pr.op = "UnarchiveAccount" -> Unarchive(a).err # NoError
      [] pr.op = "AdjustAccountBalance" ->
            AdjustBalance(a, x.newBalance, now, nextID).err # NoError
      [] OTHER -> FALSE

\* C18: a mutating use case reaches Save only when FindAccountByID gave it an
\* account and the domain method returned no error but a tolerated sentinel;
\* when it returns before Save it has not called Save, it returns an error
\* and no row has changed; and a use case enters Save at most once, from its
\* load or, for CreateAccount, from its start.
C18_SaveAfterSuccess ==
    [][ \A p \in Procs :
          LET pr == procs[p] IN
          /\ (pr.pc = "getTxs" /\ pr.op \in MutatingOps /\ procs'[p].pc = "begin")
             => \E out \in getTransactionsByAccountID(dbTxs, pr.accountID) :
                   /\ Found(p, out).err = NoError
                   /\ ~DomainError(pr, Found(p, out).account)
                   /\ procs'[p].loaded = Found(p, out).account
          /\ (pr.pc = "getTxs" /\ pr.op \in MutatingOps /\ procs'[p].pc = "done")
             => /\ ~reply'.saveCalled
                /\ reply'.err # NoError
                /\ dbAccounts' = dbAccounts
                /\ dbTxs' = dbTxs
          /\ (procs'[p].pc = "begin" /\ pr.pc # "begin")
             => /\ ~pr.saveCalled
                /\ procs'[p].saveCalled
                /\ pr.pc = "getTxs" \/ (pr.pc = "done" /\ procs'[p].op = "CreateAccount")
          /\ (pr.pc \in SavePcs /\ procs'[p].pc \in SavePcs)
             => /\ procs'[p].saveCalled
                /\ procs'[p].pc = "begin" => pr.pc = "begin" ]_vars

\* ArchiveAccount has just returned the domain's refusal to archive an
\* account that is archived, without calling Save
C18_Witness ==
    /\ reply.op = "ArchiveAccount"
    /\ ~reply.saveCalled
    /\ reply.err = << "failed to archive account", ErrAccountArchived >>

X10 == "xxxxxxxxxx"
X100 == X10 \o X10 \o X10 \o X10 \o X10 \o X10 \o X10 \o X10 \o X10 \o X10
X500 == X100 \o X100 \o X100 \o X100 \o X100
LongDescription == X100 \o "x"
LongObservation == X500 \o X500 \o X500 \o X500 \o X500 \o "x"

\* arguments of AddTransaction that break any number of its rules at once
OrderArgs ==
    [ txType : {Income, Expense, "TRANSFER"},
      description : {"", " ", "rent", LongDescription},
      observation : {"", LongObservation},
      amount : Amounts, dueDate : DueDates,
      paidAt : {NilTime, 0, MaxTime + 1} ]

\* the rules in the order claimed, each with whether x breaks it in the
\* current state and the error it stands for
Rules(x) ==
    << [ broken |-> acct.ArchivedAt # NilTime,
         err |-> << "account is already archived" >> ],
       [ broken |-> x.description \in {"", " "},
         err |-> << "transaction description is required" >> ],
       [ broken |-> Len(x.description) > 100,
         err |-> << "transaction description cannot exceed 100 characters" >> ],
       [ broken |-> x.observation \notin {"", " "} /\ Len(x.observation) > 2500,
         err |-> << "transaction observation cannot exceed 2500 characters" >> ],
       [ broken |-> x.amount = 0,
         err |-> << "transaction amount cannot be zero" >> ],
       [ broken |-> x.txType \notin {"INCOME", "EXPENSE", "ADJUSTMENT"},
         err |-> << "invalid transaction type" >> ],
       [ broken |-> \/ x.txType = "INCOME" /\ x.amount < 0
                    \/ x.txType = "EXPENSE" /\ x.amount > 0,
         err |-> << "transaction amount sign is inconsistent with its type" >> ],
       [ broken |-> x.paidAt # NilTime /\ x.paidAt > now,
         err |-> << "payment date cannot be in the future" >> ] >>

Broken(x) == { i \in DOMAIN Rules(x) : Rules(x)[i].broken }

\* the least element of a non-empty set of numbers
Least(S) == CHOOSE i \in S : \A j \in S : i <= j

\* C20: AddTransaction tests archived, description presence, description
\* length, observation length, non-zero amount, valid type, sign and paidAt
\* not in the future in that order: the error returned is that of the first
\* rule the call breaks, and on every error the account is as it was; a call
\* that breaks none appends one transaction.
C20_CheckOrder ==
    \A x \in OrderArgs :
        LET r == AddResult(x)
        IN IF Broken(x) # {}
              THEN r = [ acc |-> acct, err |-> Rules(x)[Least(Broken(x))].err ]
              ELSE /\ r.err = NoError
                   /\ Len(r.acc.transactions) = Len(acct.transactions) + 1

\* calls that break several rules at once have a rule to be first: here on
\* an account that is not archived, holds an expense paid now and is asked
\* at the last clock value, so that amount, type, sign and paidAt all count
C20_Witness ==
    /\ acct.ArchivedAt = NilTime
    /\ now = MaxTime
    /\ \E i \in TxIndices :
          /\ acct.transactions[i].Type = Expense
          /\ acct.transactions[i].Amount < 0
          /\ acct.transactions[i].PaidAt = now
    /\ \E x \in OrderArgs : Cardinality(Broken(x)) >= 3

\* ------------------------------- claims on the aggregate, third series

\* the positions of the account that hold a transaction with ID txID
Holding(txID) == { i \in TxIndices : acct.transactions[i].ID = txID }

\* the ids and payment times a caller may pass, one id never issued and one
\* time after every clock value included
AnyTxIDs == TxIDs \cup {MaxIDs + 1}
AnyTimes == Times \cup {MaxTime + 1}

\* the reasons MarkTransactionAsPaid has to fail, in the order claimed
PaidRules(txID, paidAt) ==
    << [ broken |-> acct.ArchivedAt # NilTime,
         err |-> << "account is already archived" >> ],
       [ broken |-> paidAt > now,
         err |-> << "payment date cannot be in the future" >> ],
       [ broken |-> Holding(txID) = {},
         err |-> << "transaction not found in this account" >> ],
       [ broken |-> \E i \in Holding(txID) : acct.transactions[i].PaidAt # NilTime,
         err |-> << "transaction is already marked as paid" >> ] >>

PaidBroken(txID, paidAt) ==
    { i \in DOMAIN PaidRules(txID, paidAt) : PaidRules(txID, paidAt)[i].broken }

\* C21: MarkTransactionAsPaid fails, in this precedence, on an archived
\* account, on a paidAt after clock.Now(), on an unknown txID and on a
\* transaction already paid, and leaves the account as it was (an already
\* paid transaction keeps its PaidAt); when it succeeds the transaction with
\* ID txID, and no other, has PaidAt = paidAt and nothing else has changed.
C21_MarkPaid ==
    \A txID \in AnyTxIDs, paidAt \in AnyTimes :
        LET r == MarkTransactionAsPaid(acct, txID, paidAt, now)
            B == PaidBroken(txID, paidAt)
        IN IF B # {}
              THEN r = [ acc |-> acct, err |-> PaidRules(txID, paidAt)[Least(B)].err ]
              ELSE /\ r.err = NoError
                   /\ Len(r.acc.transactions) = Len(acct.transactions)
                   /\ \A i \in TxIndices :
                         r.acc.transactions[i] =
                            IF i \in Holding(txID)
                               THEN [ acct.transactions[i] EXCEPT !.PaidAt = paidAt ]
                               ELSE acct.transactions[i]
                   /\ [ r.acc EXCEPT !.transactions = acct.transactions ] = acct

\* MarkTransactionAsPaid has paid the second of two transactions at the
\* clock value 0 and the clock has moved on: the first is unpaid, and a
\* second call on the paid one has a PaidAt to keep
C21_Witness ==
    /\ acct.ArchivedAt = NilTime
    /\ now = MaxTime
    /\ Len(acct.transactions) = 2
    /\ acct.transactions[1].PaidAt = NilTime
    /\ acct.transactions[2].PaidAt = 0
    /\ acct.transactions[2].Amount < 0

\* the reasons MarkTransactionAsUnpaid has to fail, in the order of the code
UnpaidRules(txID) ==
    << [ broken |-> acct.ArchivedAt # NilTime,
         err |-> << "account is already archived" >> ],
       [ broken |-> Holding(txID) = {},
         err |-> << "transaction not found in this account" >> ],
       [ broken |-> \E i \in Holding(txID) : acct.transactions[i].PaidAt = NilTime,
         err |-> << "transaction is already marked as unpaid" >> ] >>

UnpaidBroken(txID) == { i \in DOMAIN UnpaidRules(txID) : UnpaidRules(txID)[i].broken }

\* the positions other than those in H whose transaction is paid by time t
SettledBut(a, t, H) ==
    { j \in DOMAIN a.transactions \ H :
         a.transactions[j].PaidAt # NilTime /\ a.transactions[j].PaidAt <= t }

\* C22: MarkTransactionAsUnpaid fails on an archived account, on an unknown
\* txID and on a transaction already unpaid, and leaves the account as it
\* was; when it succeeds it clears PaidAt of that transaction and changes
\* nothing else, so that ProjectedBalance is as before and RealBalance is the
\* sum over the other settled transactions, the old RealBalance less the
\* Amount of the transaction; and MarkTransactionAsPaid followed by
\* MarkTransactionAsUnpaid on an unpaid transaction gives the account back.
C22_MarkUnpaid ==
    /\ \A txID \in AnyTxIDs :
          LET r == MarkTransactionAsUnpaid(acct, txID)
              B == UnpaidBroken(txID)
              H == Holding(txID)
          IN IF B # {}
                THEN r = [ acc |-> acct, err |-> UnpaidRules(txID)[Least(B)].err ]
                ELSE /\ r.err = NoError
                     /\ r.acc = [ acct EXCEPT !.transactions =
                                    [ i \in TxIndices |->
                                        IF i \in H THEN [ @[i] EXCEPT !.PaidAt = NilTime ]
                                                   ELSE @[i] ] ]
                     /\ ProjectedBalance(r.acc) = ProjectedBalance(acct)
                     /\ RealBalance(r.acc, now)
                           = SumAmounts(acct.transactions, SettledBut(acct, now, H))
                     /\ RealBalance(r.acc, now)
                           = RealBalance(acct, now) - SumAmounts(acct.transactions, H)
    /\ \A txID \in TxIDs, paidAt \in Times :
          LET r1 == MarkTransactionAsPaid(acct, txID, paidAt, now)
          IN r1.err = NoError
             => MarkTransactionAsUnpaid(r1.acc, txID) = [ acc |-> acct, err |-> NoError ]

\* the account holds two paid transactions, an income and an expense, and
\* an unpaid call on either has the other to leave alone
C22_Witness ==
    /\ acct.ArchivedAt = NilTime
    /\ Len(acct.transactions) = 2
    /\ acct.transactions[1].PaidAt # NilTime
    /\ acct.transactions[2].PaidAt # NilTime
    /\ acct.transactions[1].Amount > 0
    /\ acct.transactions[2].Amount < 0

\* no two transactions of a have the same ID
UniqueIDs(a) ==
    \A i, j \in DOMAIN a.transactions :
        i # j => a.transactions[i].ID # a.transactions[j].ID

\* the accounts FindByID may return once Save(a) has replaced the rows of a
RoundTrips(a) ==
    { FindByIDResult(toAccountPersistence(a), out).account :
        out \in { o \in getTransactionsByAccountID(
                          bulkInsertTransactions(a.ID, a.UserID, a.transactions), a.ID)
                    : o.err = NoError } }

\* C23 (transaction identity): the IDs of the account's transactions are
\* pairwise different, and so are those of the account a Save / FindByID
\* round trip gives back, which are the same IDs; a successful AddTransaction
\* appends one transaction at the end whose ID no transaction of the account
\* has; and no other operation brings an ID into the account.
C23_UniqueIdentity ==
    /\ [](/\ UniqueIDs(acct)
          /\ \A b \in RoundTrips(acct) :
                /\ UniqueIDs(b)
                /\ MemoryIDs(b) = MemoryIDs(acct)
                /\ Len(b.transactions) = Len(acct.transactions))
    /\ [][ /\ MemoryIDs(acct') \subseteq MemoryIDs(acct) \cup {nextID}
           /\ nextID' # nextID
              => /\ DoAddTransaction
                 /\ Len(acct'.transactions) = Len(acct.transactions) + 1
                 /\ SubSeq(acct'.transactions, 1, Len(acct.transactions))
                       = acct.transactions
                 /\ acct'.transactions[Len(acct'.transactions)].ID
                       \notin MemoryIDs(acct)
           /\ ~(MemoryIDs(acct') \subseteq MemoryIDs(acct)) => nextID' # nextID
           /\ (\/ DoDeleteTransaction \/ DoMarkTransactionAsPaid
               \/ DoMarkTransactionAsUnpaid \/ DoArchive \/ DoUnarchive)
              => MemoryIDs(acct') \subseteq MemoryIDs(acct) ]_vars

\* three transactions were added and the second deleted: the account holds
\* the first, which was paid since, and the third
C23_Witness ==
    /\ nextID = MaxIDs + 1
    /\ Len(acct.transactions) = 2
    /\ acct.transactions[1].ID = 1
    /\ acct.transactions[2].ID = 3
    /\ acct.transactions[1].PaidAt # NilTime

\* the bounds on the text fields of account a
WithinBounds(a) ==
    /\ a.Name \notin {"", " ", LongBlank}
    /\ Len(a.Name) <= 100
    /\ \A i \in DOMAIN a.transactions :
          /\ a.transactions[i].Description \notin {"", " ", LongBlank}
          /\ Len(a.transactions[i].Description) \in 1..100
          /\ Len(a.transactions[i].Observation) <= 2500

\* names, descriptions and observations at and beyond the bounds
BoundNames == {"", " ", "Checking", X100, LongDescription}
BoundArgs ==
    [ txType : {Income}, description : {"", " ", "rent", X100, LongDescription},
      observation : {"", " ", "note", LongObservation, LongBlank},
      amount : {2}, dueDate : DueDates, paidAt : {NilTime} ]

\* C24 as stated: the account NewAccount returns, the account reached, and
\* the account every accepted AddTransaction leaves, have a non-blank Name
\* of at most 100 characters and transactions with a non-blank Description
\* of 1 to 100 characters and an Observation of at most 2500 runes,
\* whatever the observation passed, one made of whitespace only included.
C24_FieldBounds ==
    /\ WithinBounds(acct)
    /\ \A name \in BoundNames :
          NewAccount(UserA, name, TRUE, nextID).err = NoError
          => WithinBounds(NewAccount(UserA, name, TRUE, nextID).acc)
    /\ \A x \in BoundArgs :
          AddResult(x).err = NoError => WithinBounds(AddResult(x).acc)

\* what the code keeps of C24: the bounds hold after every accepted call
\* whose observation is not whitespace alone
C24_ExceptBlankObservation ==
    /\ WithinBounds(acct)
    /\ \A name \in BoundNames :
          NewAccount(UserA, name, TRUE, nextID).err = NoError
          => WithinBounds(NewAccount(UserA, name, TRUE, nextID).acc)
    /\ \A x \in BoundArgs :
          (AddResult(x).err = NoError /\ x.observation # LongBlank)
          => WithinBounds(AddResult(x).acc)

\* ------------------------------- claims on the Service, second series

\* the steps of one Save: from each, the step that follows its success and
\* where its failure leads
SaveOrder ==
    { << "begin", "upsert" >>, << "begin", "done" >>,
      << "upsert", "delete" >>, << "upsert", "rollback" >>,
      << "delete", "insert" >>, << "delete", "rollback" >>,
      << "insert", "commit" >>, << "insert", "rollback" >>,
      << "commit", "done" >>, << "rollback", "done" >> }

\* the error of the step of Save that failed
StepError(pc) ==
    CASE pc = "upsert" -> << "failed to upsert account: db error" >>
      [] pc = "delete" -> << "failed to delete transactions for account: db error" >>
      [] OTHER -> << "failed to bulk insert transactions: db error" >>

ForeignRows ==
    { [ id |-> MaxIDs + 2, account_id |-> MissingID, user_id |-> UserB,
        category_id |-> NilID, type |-> Expense, description |-> "rent",
        observation |-> "", amount_in_cents |-> -1, due_date |-> 0,
        paid_at |-> DBNull, metadata |-> DBNull ] }

\* the transactions of every account FindByID may return for id from the
\* tables with the rows txs
Rehydrated(txs, id) ==
    { FindByIDResult(getAccountByID(dbAccounts, id).m, out).account.transactions :
        out \in { o \in getTransactionsByAccountID(txs, id) : o.err = NoError } }

\* C26: for every persisted account, the transactions FindByID returns are
\* the child rows of that account, each once and none of another account,
\* with the ID, Type, Description, Observation, Amount and DueDate of the
\* row, and in them no DueDate is after the DueDate of the next, whatever
\* the order in which the transactions were added.
C26_OrderedByDueDate ==
    \A id \in { r.id : r \in dbAccounts }, F \in { {}, ForeignRows } :
        \A txs \in Rehydrated(dbTxs \cup F, id) :
            /\ Len(txs) = Cardinality(RowsOf(dbTxs, id))
            /\ \A r \in RowsOf(dbTxs, id) :
                  Cardinality({ i \in DOMAIN txs : txs[i].ID = r.id }) = 1
            /\ \A i \in DOMAIN txs :
                  \E r \in RowsOf(dbTxs, id) :
                     /\ r.id = txs[i].ID
                     /\ r.type = txs[i].Type
                     /\ r.description = txs[i].Description
                     /\ r.observation = txs[i].Observation
                     /\ r.amount_in_cents = txs[i].Amount
                     /\ r.due_date = txs[i].DueDate
            /\ \A i \in DOMAIN txs :
                  i < Len(txs) => txs[i].DueDate <= txs[i + 1].DueDate

\* the account has two persisted transactions, and the one added first is
\* due after the one added second
C26_Witness ==
    \E r1, r2 \in dbTxs :
        /\ r1.account_id = r2.account_id
        /\ r1.id < r2.id
        /\ r1.due_date > r2.due_date

\* every UpdateAccount call: Name absent, accepted or refused, and
\* IncludeInOverallBalance absent, true or false
AnyUpdateParams ==
    { [ NoArgs EXCEPT !.changeName = c, !.name = IF c THEN n ELSE "", !.include = i ]
      : c \in BOOLEAN, n \in {"Savings", ""}, i \in {"nil", "true", "false"} }

\* the tables once Save(a) has committed
AfterSave(a) ==
    [ accs |-> upsertAccount(dbAccounts, toAccountPersistence(a)),
      txs |-> (dbTxs \ RowsOf(dbTxs, a.ID))
                 \cup bulkInsertTransactions(a.ID, a.UserID, a.transactions) ]

\* every way one UpdateAccount call by the owner of account id can end when
\* no other request runs: the error returned and the tables left
UpdateOutcomes(id, params) ==
    { LET f == FindAccountByID(
                  FindByIDResult(getAccountByID(dbAccounts, id).m, out),
                  AccountRow(dbAccounts, id).user_id)
          u == UpdateAccountResult(f.account, params)
      IN IF f.err # NoError \/ u.err # NoError
            THEN [ err |-> IF f.err # NoError THEN f.err ELSE u.err,
                   accs |-> dbAccounts, txs |-> dbTxs ]
            ELSE [ err |-> NoError, accs |-> AfterSave(u.acc).accs,
                   txs |-> AfterSave(u.acc).txs ]
      : out \in getTransactionsByAccountID(dbTxs, id) }

\* C27 as stated: UpdateAccount changes only what the caller supplied.  With
\* Name absent the persisted name is as before, with
\* IncludeInOverallBalance absent the persisted flag is as before, in every
\* case the id, the owner, ArchivedAt and the transactions are as before,
\* and when ChangeName fails no row changes.
C27_OnlySupplied ==
    \A id \in { r.id : r \in dbAccounts }, params \in AnyUpdateParams :
        \A o \in UpdateOutcomes(id, params) :
            LET old == AccountRow(dbAccounts, id)
                new == AccountRow(o.accs, id)
            IN /\ ~params.changeName => new.name = old.name
               /\ params.include = "nil"
                  => new.include_in_overall_balance = old.include_in_overall_balance
               /\ new.id = old.id
               /\ new.user_id = old.user_id
               /\ new.archived_at = old.archived_at
               /\ o.txs = dbTxs
               /\ (params.changeName /\ params.name = "")
                  => (o.err # NoError /\ o.accs = dbAccounts /\ o.txs = dbTxs)

\* what the code keeps of C27: the name, the id, the owner, ArchivedAt and
\* the ids of the transactions, and nothing persisted when ChangeName fails
C27_NameAndIdentity ==
    \A id \in { r.id : r \in dbAccounts }, params \in AnyUpdateParams :
        \A o \in UpdateOutcomes(id, params) :
            LET old == AccountRow(dbAccounts, id)
                new == AccountRow(o.accs, id)
            IN /\ ~params.changeName => new.name = old.name
               /\ params.include = "true" /\ o.err = NoError
                  => new.include_in_overall_balance
               /\ params.include = "false" /\ o.err = NoError
                  => ~new.include_in_overall_balance
               /\ new.id = old.id
               /\ new.user_id = old.user_id
               /\ new.archived_at = old.archived_at
               /\ { r.id : r \in o.txs } = { r.id : r \in dbTxs }
               /\ (params.changeName /\ params.name = "")
                  => (o.err # NoError /\ o.accs = dbAccounts /\ o.txs = dbTxs)

\* the use cases that load, mutate and save without a flag to set
FlagFreeOps == { "AddTransactionToAccount", "ArchiveAccount", "UnarchiveAccount",
                 "AdjustAccountBalance" }

\* goroutine p ends a use case of FlagFreeOps with success in this step
FlagFreeSuccess(p) ==
    /\ procs[p].op \in FlagFreeOps
    /\ procs[p].pc = "commit"
    /\ procs'[p].pc = "done"
    /\ reply'.err = NoError

\* C28 as stated: the commit that ends a successful AddTransactionToAccount,
\* ArchiveAccount, UnarchiveAccount or AdjustAccountBalance leaves
\* include_in_overall_balance of the account as it was persisted.
C28_FlagKept ==
    [][ \A p \in Procs :
          FlagFreeSuccess(p)
          => AccountRow(dbAccounts', procs[p].account.ID).include_in_overall_balance
               = AccountRow(dbAccounts, procs[p].account.ID).include_in_overall_balance
      ]_vars

\* what the code keeps of C28: those use cases never set the flag, and leave
\* it as it was when it was false
C28_FlagNeverSet ==
    [][ \A p \in Procs :
          FlagFreeSuccess(p)
          => /\ ~AccountRow(dbAccounts', procs[p].account.ID).include_in_overall_balance
             /\ AccountRow(dbAccounts', procs[p].account.ID).user_id
                  = AccountRow(dbAccounts, procs[p].account.ID).user_id ]_vars

RevokeErrors ==
    { Sentinel("token not found"),
      WrapV("failed to query token by hash", ClientError),
      WrapV("failed to delete token", ClientError) }
InvalidOrExpired ==
    { WrapV("invalid or expired refresh token", e) : e \in RevokeErrors }
\* the finished RotateRefreshToken calls that presented refreshToken
RotationsOf(refreshToken) ==
    { r \in rotations : r.refreshToken = refreshToken }
Succeeded(refreshToken) ==
    { r \in RotationsOf(refreshToken) : r.err = NoError }
\* the refresh tokens those calls returned that are still in the table
LiveSuccessors(refreshToken) ==
    { r.pair : r \in { x \in Succeeded(refreshToken) :
                         QueryTokenHash(tokenTable, Sha256Hex(x.pair)) # {} } }

\* C30 as stated: of the RotateRefreshToken calls that present one refresh
\* token at most one succeeds, once one has succeeded every other fails with
\* the invalid-or-expired error, and the token has at most one live successor.
C30_SingleUse ==
    \A refreshToken \in issued :
       /\ Cardinality(Succeeded(refreshToken)) <= 1
       /\ Succeeded(refreshToken) # {} =>
             \A r \in RotationsOf(refreshToken) \ Succeeded(refreshToken) :
                r.err \in InvalidOrExpired
       /\ Cardinality(LiveSuccessors(refreshToken)) <= 1

\* What holds: a token no NewPairForUser returned never yields a pair.
C30_ForgedNeverSucceeds ==
    \A r \in rotations : r.refreshToken = ForgedToken => r.err \in InvalidOrExpired

====
